---- MODULE Spec2Model ----
(***************************************************************************)
(* Model of the hydroponic web application.                                *)
(*                                                                         *)
(*  - the alert dispatcher of backend/server.js: the realtime subscription *)
(*    callback and the async function sendSensorAlerts, one model step per *)
(*    run-to-completion segment of the event loop (from one await to the   *)
(*    next);                                                               *)
(*  - the range resolver of the MultiPlantSelector component               *)
(*    (calculateOverlap) and its save (saveToSupabase);                    *)
(*  - the CRUD proxy of backend/server.js: the handlers of /api/users,     *)
(*    /api/plants and /api/sensor-data, one model step per segment of a    *)
(*    handler;                                                             *)
(*  - the webhook registration of backend/server.js (setWebhook);          *)
(*  - the browser side: the routes of App.js behind ProtectedRoute, the    *)
(*    pages mounted and unmounted by a location change, the raw-data view  *)
(*    (RawDataView.js), the select-plant page (SelectPlant.js) and the     *)
(*    notification list (NotificationContext.js).                          *)
(***************************************************************************)
EXTENDS Integers, Sequences, FiniteSets, TLC

VARIABLES
    lastSeenId,     \* server.js:75   let lastSeenId = null
    botInit,        \* server.js:43   whether `bot` was constructed at startup
    handlers,       \* one record per sendSensorAlerts invocation, in delivery order
    calls,          \* the bot.sendMessage calls issued, in the order issued
    crashed,        \* an error escaped sendSensorAlerts (unhandled rejection)
    system_config,  \* the system_config row: [selected_plant_id]
    plant_profiles, \* table plant_profiles: id -> row
    multiplant_profile, \* table multiplant_profile: id -> row
    plants,         \* MultiPlantSelector: useState([]) of the loaded profiles
    selectedPlantIds, \* MultiPlantSelector: useState([])
    calculatedRange, \* MultiPlantSelector: useState(null)
    saving,         \* MultiPlantSelector: useState(false)
    upserts,        \* the multiplant_profile upserts the selector issued, in order
    sensor_data,    \* table sensor_data: id -> row
    auth_users,     \* the identity service's users: id -> [email, password]
    profiles,       \* table profiles: id -> [email, role]
    requests,       \* the HTTP requests the CRUD proxy received, in order
    writes,         \* the write calls the proxy issued, in the order issued
    webhook,        \* the webhook registered for the bot: none | old | set
    authUser,       \* the id of the user supabase.auth.getUser() returns (NULL: none)
    userRole,       \* localStorage item 'userRole'
    route,          \* the location the router of App.js matches
    guard,          \* the ProtectedRoute rendered: none | loading | ready
    authCalls,      \* the handleRegister and handleLogout calls suspended at an await
    issued,         \* number of handler calls that reached an await in the session
    selectPlants,   \* SelectPlant: useState([]) of the plants fetched, their ids
    configId,       \* SelectPlant: useState(null) of the id of the system_config row
    selectCalls,    \* the fetchData and handleChange calls suspended at an await
    chartData,      \* RawDataView: useState([]) of the rows fetched
    currentPage,    \* RawDataView: useState(1)
    selectedRows,   \* RawDataView: useState([]) of the selected row ids
    plantName,      \* RawDataView: useState('')
    fetches,        \* the getSelectedPlantData calls suspended at an await
    deleting,       \* the handleDeleteSelected calls suspended at the await of fetch
    notifications,  \* NotificationContext: useState([])
    now             \* the millisecond clock Date.now() reads

dispatcherVars == <<lastSeenId, botInit, handlers, calls, crashed>>

vars == <<lastSeenId, botInit, handlers, calls, crashed,
          system_config, plant_profiles, multiplant_profile,
          plants, selectedPlantIds, calculatedRange, saving, upserts,
          sensor_data, auth_users, profiles, requests, writes,
          webhook, authUser, userRole, route, guard, authCalls, issued,
          selectPlants, configId, selectCalls,
          chartData, currentPage, selectedRows, plantName, fetches, deleting,
          notifications, now>>

routeVars == <<authUser, userRole, route, guard, authCalls, issued>>
selectVars == <<selectPlants, configId, selectCalls>>
tableViewVars == <<chartData, currentPage, selectedRows, plantName, fetches, deleting>>
notificationVars == <<notifications, now>>
clientVars == <<routeVars, selectVars, tableViewVars, notificationVars>>

tableVars == <<system_config, plant_profiles, multiplant_profile>>
resolverVars == <<plants, selectedPlantIds, calculatedRange, saving, upserts>>
crudVars == <<sensor_data, auth_users, profiles, requests, writes>>

-----------------------------------------------------------------------------
(* Bounds *)

\* number of INSERT events the realtime feed delivers in one behaviour
MaxEvents == 3
\* number of events of a feed in which every reading has a pump flag set
MaxFeedEvents == 4
\* number of sendSensorAlerts invocations suspended at an await at one time
MaxInFlight == 2
\* events delivered when every combination of pump flags is enumerated
MaxMsgEvents == 1
\* number of profiles the selector has loaded
MaxPlants == 3
\* number of sensor_data rows the raw-data view can be given: one more than
\* a page holds
MaxRows == 21
\* the last millisecond the clock of the notification list reaches
MaxClock == 4
\* number of notifications in the list
MaxNotifications == 4
\* number of Multiplant saves the selector issues in one behaviour
MaxSaves == 3
\* number of handler calls of a browser session that reach an await:
\* handleRegister, handleLogout, handleChange, saveToSupabase and
\* handleDeleteSelected
MaxCalls == 2
\* number of HTTP requests the CRUD proxy receives in one behaviour
MaxRequests == 2

\* JavaScript null for ids (lastSeenId, selected_plant_id); real ids are >= 1
NULL == 0

-----------------------------------------------------------------------------
(* Values *)

\* ids of sensor_data rows
ReadingIds == {1, 2, 3}

\* a sensor_data row as delivered in payload.new
Row(id, p1, p2, p3, p4, ph, ec) ==
    [id |-> id, pump1 |-> p1, pump2 |-> p2, pump3 |-> p3, pump4 |-> p4,
     ph |-> ph, ec |-> ec]

\* rows of the event feed: every id, no pump or pump1, and for the rows with
\* no pump also readings far outside any profile's range
FeedRows ==
    {Row(id, p1, FALSE, FALSE, FALSE, 5, 2) : id \in ReadingIds, p1 \in BOOLEAN}
    \cup {Row(id, FALSE, FALSE, FALSE, FALSE, 14, 9) : id \in ReadingIds}

\* rows of a feed in which every reading has pump1 set
PumpedRows == {r \in FeedRows : r.pump1}

\* rows for the message content: every combination of the four flags
AllRows ==
    {Row(id, p1, p2, p3, p4, ph, 2) :
        id \in {1, 2},
        p1 \in BOOLEAN, p2 \in BOOLEAN, p3 \in BOOLEAN, p4 \in BOOLEAN,
        ph \in {5, 8}}

\* the greatest and the least number of a non-empty set
Greatest(S) == CHOOSE m \in S : \A x \in S : x <= m
Least(S) == CHOOSE m \in S : \A x \in S : m <= x

\* a row of plant_profiles or multiplant_profile; pH and EC in tenths
Profile(name, ph, ec) ==
    [name |-> name, ph_min |-> ph[1], ph_max |-> ph[2],
     ec_min |-> ec[1], ec_max |-> ec[2]]

\* data: null of a { data, error } response
NoData == "<null>"

\* the values of system_config.selected_plant_id: no selection, a
\* plant_profiles row, the multiplant_profile row, a row of neither table
SelectableIds == {NULL, 1, 2, 3}

\* { data, error } of .from('system_config').select('selected_plant_id')
\* .limit(1).single(): the stored row, or an error
ConfigResponses ==
    {[error |-> TRUE, selected_plant_id |-> NULL],
     [error |-> FALSE, selected_plant_id |-> system_config.selected_plant_id]}

\* { data, error } of .from(table).select('name').eq('id', id).single():
\* the row's name, or an error when no row has that id
SelectName(table, id) ==
    IF id \in DOMAIN table
    THEN [error |-> FALSE, name |-> table[id].name]
    ELSE [error |-> TRUE, name |-> NoData]

\* replies of a name query that do not come from the table: a datastore
\* error, and a reply with neither data nor error
Glitches ==
    {[error |-> TRUE, name |-> NoData], [error |-> FALSE, name |-> NoData]}

NameResponses(table, id, glitches) == {SelectName(table, id)} \cup glitches

-----------------------------------------------------------------------------
(* Alert dispatcher: backend/server.js *)

UnknownPlant == "Unknown Plant"

\* mutant: the duplicate check always fails
IsDuplicateNever(row) == FALSE

\* mutant: the duplicate check compares with the first id, not the last seen
IsDuplicateOfFirst(row) ==
    row.id = (IF handlers = <<>> THEN lastSeenId ELSE handlers[1].row.id)

\* server.js:81   row.id === lastSeenId
IsDuplicate(row) == row.id = lastSeenId

\* mutant: the pump check is missing
NoPumpTriggeredUnchecked(row) == FALSE

\* server.js:88   !row.pump1 && !row.pump2 && !row.pump3 && !row.pump4
NoPumpTriggered(row) ==
    ~row.pump1 /\ ~row.pump2 /\ ~row.pump3 /\ ~row.pump4

\* server.js:99   configError || !configData?.selected_plant_id
ConfigMissing(resp) == resp.error \/ resp.selected_plant_id = NULL

\* mutant: the pump2 paragraph carries the pH reading
ParagraphPhForPump2(k, row, name) ==
    [alert |-> CASE k = 1 -> "EC too low! Add Solution A+B."
                 [] k = 2 -> "EC too high! Add water."
                 [] k = 3 -> "pH too low! Add alkali."
                 [] k = 4 -> "pH too high! Add acid.",
     pump |-> k,
     label |-> IF k = 1 THEN "EC" ELSE "pH",
     value |-> IF k = 1 THEN row.ec ELSE row.ph,
     plant |-> name]

\* server.js:133, 136, 139, 142: the paragraph appended for pump k
Paragraph(k, row, name) ==
    CASE k = 1 -> [alert |-> "EC too low! Add Solution A+B.", pump |-> 1,
                   label |-> "EC", value |-> row.ec, plant |-> name]
      [] k = 2 -> [alert |-> "EC too high! Add water.", pump |-> 2,
                   label |-> "EC", value |-> row.ec, plant |-> name]
      [] k = 3 -> [alert |-> "pH too low! Add alkali.", pump |-> 3,
                   label |-> "pH", value |-> row.ph, plant |-> name]
      [] k = 4 -> [alert |-> "pH too high! Add acid.", pump |-> 4,
                   label |-> "pH", value |-> row.ph, plant |-> name]

\* server.js:130-143: message = '' and one += per true flag
BuildMessage(row, name) ==
    (IF row.pump1 THEN <<Paragraph(1, row, name)>> ELSE <<>>)
    \o (IF row.pump2 THEN <<Paragraph(2, row, name)>> ELSE <<>>)
    \o (IF row.pump3 THEN <<Paragraph(3, row, name)>> ELSE <<>>)
    \o (IF row.pump4 THEN <<Paragraph(4, row, name)>> ELSE <<>>)

\* server.js:114: the fallback query is issued on plantError
QueriesMultiplant(resp) == resp.error

\* server.js:125-127: else if (plantData) plantName = plantData.name
NameFromPlant(resp) ==
    IF resp.name # NoData THEN resp.name ELSE UnknownPlant

\* mutant: the fallback name is never assigned
NameFromMultiplantUnassigned(resp) == UnknownPlant

\* server.js:122-124: if (!multiplantError && multiplantData)
NameFromMultiplant(resp) ==
    IF ~resp.error /\ resp.name # NoData THEN resp.name ELSE UnknownPlant

\* how a name reply is recorded: error | nodata | row
ReplyKind(resp) ==
    IF resp.error THEN "error" ELSE IF resp.name = NoData THEN "nodata" ELSE "row"

\* one invocation of sendSensorAlerts
\*   pc      where it is suspended: config | plant | multiplant | send | done
\*   result  how it ended (running until then): duplicate | nopump | noconfig
\*           | nomessage | sent, or the error the catch block logged:
\*           lookup threw | bot undefined | send rejected
\*   plantId, plantName, plant, mp   its locals: the selected id, the name,
\*           and the replies of the two name queries (none: not queried)
Handler(row, pc, result) ==
    [row |-> row, pc |-> pc, result |-> result,
     plantId |-> NULL, plantName |-> UnknownPlant,
     plant |-> "none", mp |-> "none"]

\* a return: the locals are gone
Return(h, result) == Handler(h.row, "done", result)

\* mutant: no try/catch, the error leaves sendSensorAlerts
CatchMissing(h, err) == Return(h, "escaped")

\* mutant: the catch block starts the handler over
CatchAndRetry(h, err) == Handler(h.row, "config", "running")

\* server.js:150-152: catch (err) { console.error(...) }
Catch(h, err) == Return(h, err)

Escaped(h) == h.result = "escaped"

\* server.js:78-97: the synchronous prefix of sendSensorAlerts, up to the
\* first await
Start(row) ==
    IF IsDuplicate(row) THEN Handler(row, "done", "duplicate")
    ELSE IF NoPumpTriggered(row) THEN Handler(row, "done", "nopump")
    ELSE Handler(row, "config", "running")

\* mutant: lastSeenId is not assigned in the synchronous prefix
NextLastSeenIdDeferred(row) == lastSeenId

\* mutant: lastSeenId is assigned after the pump-flag check
NextLastSeenIdPumpedOnly(row) ==
    IF IsDuplicate(row) \/ NoPumpTriggered(row) THEN lastSeenId ELSE row.id

\* server.js:81-84
NextLastSeenId(row) == IF IsDuplicate(row) THEN lastSeenId ELSE row.id

Running(i) == i \in 1..Len(handlers) /\ handlers[i].pc # "done"

\* the promise of handler i's bot.sendMessage call settles
Settle(i, status) ==
    [k \in 1..Len(calls) |->
        IF calls[k].ev = i /\ calls[k].status = "pending"
        THEN [calls[k] EXCEPT !.status = status] ELSE calls[k]]

InFlight == {i \in 1..Len(handlers) : handlers[i].pc # "done"}

\* server.js:166-169: the subscription callback calls sendSensorAlerts
\* without awaiting it
Deliver(rows, max) ==
    /\ ~crashed
    /\ Len(handlers) < max
    /\ \E row \in rows :
        /\ Start(row).pc # "done" => Cardinality(InFlight) < MaxInFlight
        /\ handlers' = Append(handlers, Start(row))
        /\ lastSeenId' = NextLastSeenId(row)
    /\ UNCHANGED <<webhook, clientVars, botInit, calls, crashed, tableVars, resolverVars, crudVars>>

\* server.js:93-104: the system_config query resolves
ConfigReply(i) ==
    /\ ~crashed
    /\ Running(i) /\ handlers[i].pc = "config"
    /\ \E resp \in ConfigResponses :
        handlers' = [handlers EXCEPT ![i] =
            IF ConfigMissing(resp)
            THEN Return(@, "noconfig")
            ELSE [@ EXCEPT !.pc = "plant", !.plantId = resp.selected_plant_id]]
    /\ UNCHANGED <<webhook, clientVars, lastSeenId, botInit, calls, crashed, tableVars, resolverVars, crudVars>>

\* mutant: no alert is sent when the plant name could not be resolved
SendAlertKnownPlantOnly(i, h) ==
    LET message == BuildMessage(h.row, h.plantName) IN
    IF message = <<>> \/ h.plantName = UnknownPlant
    THEN /\ handlers' = [handlers EXCEPT ![i] = Return(h, "nomessage")]
         /\ UNCHANGED <<calls, crashed>>
    ELSE IF ~botInit
    THEN /\ handlers' = [handlers EXCEPT ![i] = Return(h, "bot undefined")]
         /\ UNCHANGED <<calls, crashed>>
    ELSE /\ handlers' = [handlers EXCEPT ![i] = [h EXCEPT !.pc = "send"]]
         /\ calls' = Append(calls, [ev |-> i, text |-> message,
                                    status |-> "pending"])
         /\ UNCHANGED crashed

\* server.js:129-148: build the message and call bot.sendMessage; `bot` is
\* undefined when no token was configured, and the call then throws
SendAlert(i, h) ==
    LET message == BuildMessage(h.row, h.plantName) IN
    IF message = <<>>
    THEN /\ handlers' = [handlers EXCEPT ![i] = Return(h, "nomessage")]
         /\ UNCHANGED <<calls, crashed>>
    ELSE IF ~botInit
    THEN LET c == Catch(h, "bot undefined") IN
         /\ handlers' = [handlers EXCEPT ![i] = c]
         /\ crashed' = Escaped(c)
         /\ UNCHANGED calls
    ELSE /\ handlers' = [handlers EXCEPT ![i] = [h EXCEPT !.pc = "send"]]
         /\ calls' = Append(calls, [ev |-> i, text |-> message,
                                    status |-> "pending"])
         /\ UNCHANGED crashed

\* server.js:108-127: the plant_profiles query resolves
PlantReply(i, glitches) ==
    /\ ~crashed
    /\ Running(i) /\ handlers[i].pc = "plant"
    /\ \E resp \in NameResponses(plant_profiles, handlers[i].plantId, glitches) :
        LET h == [handlers[i] EXCEPT !.plant = ReplyKind(resp)] IN
        IF QueriesMultiplant(resp)
        THEN /\ handlers' = [handlers EXCEPT ![i] = [h EXCEPT !.pc = "multiplant"]]
             /\ UNCHANGED <<calls, crashed>>
        ELSE SendAlert(i, [h EXCEPT !.plantName = NameFromPlant(resp)])
    /\ UNCHANGED <<webhook, clientVars, lastSeenId, botInit, tableVars, resolverVars, crudVars>>

\* server.js:116-124: the multiplant_profile query resolves
MultiplantReply(i, glitches) ==
    /\ ~crashed
    /\ Running(i) /\ handlers[i].pc = "multiplant"
    /\ \E resp \in NameResponses(multiplant_profile, handlers[i].plantId, glitches) :
        SendAlert(i, [handlers[i] EXCEPT !.mp = ReplyKind(resp),
                                         !.plantName = NameFromMultiplant(resp)])
    /\ UNCHANGED <<webhook, clientVars, lastSeenId, botInit, tableVars, resolverVars, crudVars>>

\* a datastore query rejects instead of resolving: the await throws
LookupThrows(i) ==
    /\ ~crashed
    /\ Running(i) /\ handlers[i].pc \in {"config", "plant", "multiplant"}
    /\ LET c == Catch(handlers[i], "lookup threw") IN
        /\ handlers' = [handlers EXCEPT ![i] = c]
        /\ crashed' = Escaped(c)
    /\ UNCHANGED <<webhook, clientVars, lastSeenId, botInit, calls, tableVars, resolverVars, crudVars>>

\* server.js:146-147: bot.sendMessage resolves
SendResolves(i) ==
    /\ ~crashed
    /\ Running(i) /\ handlers[i].pc = "send"
    /\ handlers' = [handlers EXCEPT ![i] = Return(@, "sent")]
    /\ calls' = Settle(i, "ok")
    /\ UNCHANGED <<webhook, clientVars, lastSeenId, botInit, crashed, tableVars, resolverVars, crudVars>>

\* server.js:146, 150-152: bot.sendMessage rejects
SendRejects(i) ==
    /\ ~crashed
    /\ Running(i) /\ handlers[i].pc = "send"
    /\ LET c == Catch(handlers[i], "send rejected") IN
        /\ handlers' = [handlers EXCEPT ![i] = c]
        /\ crashed' = Escaped(c)
    /\ calls' = Settle(i, "failed")
    /\ UNCHANGED <<webhook, clientVars, lastSeenId, botInit, tableVars, resolverVars, crudVars>>

-----------------------------------------------------------------------------
(* Range resolver: frontend/src/components/ViewGraph.js, MultiPlantSelector *)

\* useState(null) of calculatedRange
NullRange == [null |-> TRUE]

\* the pH and EC intervals of the profiles, in tenths: intervals that
\* overlap, that touch and that are disjoint, and an EC interval with
\* min > max
PhRanges == {<<50, 55>>, <<55, 65>>, <<60, 70>>}
EcRanges == {<<10, 20>>, <<15, 25>>, <<20, 30>>, <<25, 10>>}

PlantNames == <<"Lettuce", "Basil", "Mint", "Kale", "Chard">>

\* the contents plant_profiles can have: rows 1..n
PlantTables ==
    UNION {[1..n -> {Profile("", ph, ec) : ph \in PhRanges, ec \in EcRanges}] :
            n \in 0..MaxPlants}

Named(table) == [id \in DOMAIN table |-> [table[id] EXCEPT !.name = PlantNames[id]]]

\* the greatest id of a table (0: no row)
MaxId(table) ==
    IF DOMAIN table = {} THEN 0
    ELSE CHOOSE m \in DOMAIN table : \A id \in DOMAIN table : id <= m

\* ViewGraph.js:715-725: select('*').neq('name', 'Multiplant'), rows by id
FetchedPlants ==
    LET Rows[n \in 0..MaxId(plant_profiles)] ==
            IF n = 0 THEN <<>>
            ELSE IF n \in DOMAIN plant_profiles /\ plant_profiles[n].name # "Multiplant"
                 THEN Append(Rows[n - 1],
                        [id |-> n, name |-> plant_profiles[n].name,
                         ph_min |-> plant_profiles[n].ph_min,
                         ph_max |-> plant_profiles[n].ph_max,
                         ec_min |-> plant_profiles[n].ec_min,
                         ec_max |-> plant_profiles[n].ec_max])
                 ELSE Rows[n - 1]
    IN Rows[MaxId(plant_profiles)]

\* Math.max(...values) of a non-empty array
RECURSIVE MathMax(_)
MathMax(values) ==
    IF Len(values) = 1 THEN values[1]
    ELSE LET m == MathMax(Tail(values)) IN
         IF values[1] >= m THEN values[1] ELSE m

\* Math.min(...values) of a non-empty array
RECURSIVE MathMin(_)
MathMin(values) ==
    IF Len(values) = 1 THEN values[1]
    ELSE LET m == MathMin(Tail(values)) IN
         IF values[1] <= m THEN values[1] ELSE m

\* Array.prototype.sort with the comparator (a, b) => a[field] - b[field],
\* or (a, b) => b[field] - a[field] when descending: a stable sort, x before
\* y when the comparator is negative
Sort(values, field, descending) ==
    LET Compare(a, b) ==
            IF descending THEN b[field] - a[field] ELSE a[field] - b[field]
        Insert(x, sorted) ==
            LET later == {k \in 1..Len(sorted) : Compare(x, sorted[k]) < 0}
                at == IF later = {} THEN Len(sorted) + 1
                      ELSE CHOOSE k \in later : \A l \in later : k <= l
            IN SubSeq(sorted, 1, at - 1) \o <<x>> \o SubSeq(sorted, at, Len(sorted))
        S[n \in 0..Len(values)] ==
            IF n = 0 THEN <<>> ELSE Insert(values[n], S[n - 1])
    IN S[Len(values)]

\* mutant: the lowest ph_min is taken
PhMinLowest(selectedPlants) ==
    MathMin([n \in 1..Len(selectedPlants) |-> selectedPlants[n].ph_min])

\* ViewGraph.js:739-740: Math.max(...phValues.map(p => p.min))
PhMin(selectedPlants) ==
    MathMax([n \in 1..Len(selectedPlants) |-> selectedPlants[n].ph_min])

\* ViewGraph.js:741: Math.min(...phValues.map(p => p.max))
PhMax(selectedPlants) ==
    MathMin([n \in 1..Len(selectedPlants) |-> selectedPlants[n].ph_max])

\* ViewGraph.js:744: selectedPlants.map(p => ({ min: p.ec_min, max: p.ec_max }))
EcValues(selectedPlants) ==
    [n \in 1..Len(selectedPlants) |->
        [min |-> selectedPlants[n].ec_min, max |-> selectedPlants[n].ec_max]]

\* ViewGraph.js:747, 751: sort descending by min, take [0].min
EcMin(selectedPlants) == Sort(EcValues(selectedPlants), "min", TRUE)[1].min

\* mutant: the greatest ec_max is taken
EcMaxGreatest(selectedPlants) == Sort(EcValues(selectedPlants), "max", TRUE)[1].max

\* ViewGraph.js:748, 752: sort ascending by max, take [0].max
EcMax(selectedPlants) == Sort(EcValues(selectedPlants), "max", FALSE)[1].max

\* mutant: pH intervals that only touch are taken as not overlapping
PhRangeValidStrict(phMin, phMax) == phMax - phMin > 0

\* ViewGraph.js:755: const phRangeValid = phMax - phMin >= 0
PhRangeValid(phMin, phMax) == phMax - phMin >= 0

\* mutant: a profile whose EC interval only touches the pair is an outlier
OutliersTouching(selectedPlants, ecMin, ecMax) ==
    LET Outside(plant) == plant.ec_min >= ecMax \/ plant.ec_max <= ecMin IN
    SelectSeq(selectedPlants, Outside)

\* ViewGraph.js:759-761
Outliers(selectedPlants, ecMin, ecMax) ==
    LET Outside(plant) == plant.ec_min > ecMax \/ plant.ec_max < ecMin IN
    SelectSeq(selectedPlants, Outside)

\* mutant: a single selected profile is enough for a range
calculateOverlapFromOne(ps, ids) ==
    LET Selected(p) == p.id \in ids
        selectedPlants == SelectSeq(ps, Selected)
    IN
    IF Len(selectedPlants) < 1 THEN NullRange
    ELSE [phMin |-> PhMin(selectedPlants), phMax |-> PhMax(selectedPlants),
          ecMin |-> EcMin(selectedPlants), ecMax |-> EcMax(selectedPlants)]

\* ViewGraph.js:731-777: the value calculateOverlap sets calculatedRange to
calculateOverlap(ps, ids) ==
    LET Selected(p) == p.id \in ids
        selectedPlants == SelectSeq(ps, Selected)
    IN
    IF Len(selectedPlants) < 2 THEN NullRange
    ELSE
        LET phMin == PhMin(selectedPlants)
            phMax == PhMax(selectedPlants)
            ecMin == EcMin(selectedPlants)
            ecMax == EcMax(selectedPlants)
            phRangeValid == PhRangeValid(phMin, phMax)
        IN
        IF phRangeValid
        THEN IF Len(Outliers(selectedPlants, ecMin, ecMax)) > 0
             THEN NullRange
             ELSE [phMin |-> phMin, phMax |-> phMax, ecMin |-> ecMin, ecMax |-> ecMax]
        ELSE NullRange

\* ViewGraph.js:713-729 and 779-781: fetchPlants on mount; on an error the
\* state stays, else setPlants and the effect runs calculateOverlap
FetchPlants ==
    /\ plants = <<>>
    /\ \E error \in BOOLEAN :
        IF error THEN UNCHANGED <<plants, calculatedRange>>
        ELSE /\ plants' = FetchedPlants
             /\ calculatedRange' = calculateOverlap(plants', selectedPlantIds)
    /\ UNCHANGED <<webhook, clientVars, dispatcherVars, tableVars, crudVars, selectedPlantIds, saving, upserts>>

\* ViewGraph.js:822 and 779-781: onChange sets the selected ids (values of
\* the options, which are the loaded plants) and the effect runs
\* calculateOverlap
SelectPlants ==
    /\ \E ids \in SUBSET {plants[n].id : n \in 1..Len(plants)} :
        /\ selectedPlantIds' = ids
        /\ calculatedRange' = calculateOverlap(plants, ids)
    /\ UNCHANGED <<webhook, clientVars, dispatcherVars, tableVars, crudVars, plants, saving, upserts>>

\* mutant: a row is inserted whether or not the name is already stored
UpsertInsertAlways(table, row) ==
    LET new == MaxId(table) + 1
    IN [id \in DOMAIN table \cup {new} |-> IF id = new THEN row ELSE table[id]]

\* ViewGraph.js:787-800: .upsert([row], { onConflict: 'name' }) on a table
\* with unique names: the row of that name takes the new values, or a row
\* with a new id is inserted
Upsert(table, row) ==
    LET same == {id \in DOMAIN table : table[id].name = row.name}
        new == MaxId(table) + 1
    IN IF same # {}
       THEN [id \in DOMAIN table |-> IF id \in same THEN row ELSE table[id]]
       ELSE [id \in DOMAIN table \cup {new} |-> IF id = new THEN row ELSE table[id]]

\* ViewGraph.js:790-797: the row saveToSupabase sends
MultiplantRow(range) ==
    Profile("Multiplant", <<range.phMin, range.phMax>>, <<range.ecMin, range.ecMax>>)

\* ViewGraph.js:869: disabled={!calculatedRange || saving}
SaveDisabled == calculatedRange = NullRange \/ saving

\* mutant: the save is issued whatever calculatedRange is
saveToSupabaseUnguarded ==
    /\ ~saving
    /\ Len(upserts) < MaxSaves
    /\ saving' = TRUE
    /\ upserts' = Append(upserts,
            [row |-> IF calculatedRange = NullRange
                     THEN Profile("Multiplant", <<0, 0>>, <<0, 0>>)
                     ELSE MultiplantRow(calculatedRange),
             status |-> "pending", mounted |-> TRUE])
    /\ UNCHANGED <<webhook, clientVars, dispatcherVars, tableVars, crudVars, plants, selectedPlantIds, calculatedRange>>

\* ViewGraph.js:783-800 and 867-875: a click on the enabled Save button runs
\* saveToSupabase up to its await: return when calculatedRange is null, else
\* setSaving(true) and the upsert request
saveToSupabase ==
    /\ ~SaveDisabled
    /\ Len(upserts) < MaxSaves
    /\ IF calculatedRange = NullRange
       THEN UNCHANGED <<saving, upserts>>
       ELSE /\ saving' = TRUE
            /\ upserts' = Append(upserts, [row |-> MultiplantRow(calculatedRange),
                                           status |-> "pending", mounted |-> TRUE])
    /\ UNCHANGED <<webhook, clientVars, dispatcherVars, tableVars, crudVars, plants, selectedPlantIds, calculatedRange>>

\* ViewGraph.js:787-808: an upsert in flight resolves, with an error and
\* nothing stored or with the row stored; then setSaving(false), which has
\* no effect when the instance that issued the upsert is no longer mounted
UpsertReply ==
    /\ \E k \in 1..Len(upserts) :
        /\ upserts[k].status = "pending"
        /\ \E error \in BOOLEAN :
            IF error
            THEN /\ upserts' = [upserts EXCEPT ![k].status = "error"]
                 /\ UNCHANGED multiplant_profile
            ELSE /\ upserts' = [upserts EXCEPT ![k].status = "ok"]
                 /\ multiplant_profile' = Upsert(multiplant_profile, upserts[k].row)
        /\ saving' = IF upserts[k].mounted THEN FALSE ELSE saving
    /\ UNCHANGED <<webhook, clientVars, dispatcherVars, crudVars, system_config, plant_profiles,
                   plants, selectedPlantIds, calculatedRange>>

-----------------------------------------------------------------------------
(* CRUD proxy: backend/server.js, the handlers of /api/plants and            *)
(* /api/sensor-data; one model step per segment of a handler, from one       *)
(* await to the next                                                         *)

\* a request with no body
NoBody == [none |-> TRUE]

\* a request handler suspended at the await named by pc; status 0 and reply
\* "none" until it responds
Request(op, id, body, pc) ==
    [op |-> op, id |-> id, body |-> body, pc |-> pc, status |-> 0, reply |-> "none"]

\* res.status(status).json(...), status 200 for res.json(...) alone: reply
\* is success | error
Respond(r, status, reply) ==
    [r EXCEPT !.pc = "done", !.status = status, !.reply = reply]

\* a write call on a table, issued by request i
Write(i, table, call) == [req |-> i, table |-> table, call |-> call]

Waiting(i, pc) == i \in 1..Len(requests) /\ requests[i].pc = pc

\* .insert([row]): the row gets a new id
InsertRow(table, row) ==
    [id \in DOMAIN table \cup {MaxId(table) + 1} |->
        IF id \in DOMAIN table THEN table[id] ELSE row]

\* the fields of a plant body over a stored row; a field the body lacks
\* (NoData) keeps its stored value
MergePlant(row, body) ==
    [name |-> IF body.name = NoData THEN row.name ELSE body.name,
     ph_min |-> body.ph_min, ph_max |-> body.ph_max,
     ec_min |-> body.ec_min, ec_max |-> body.ec_max]

\* .update(body).eq('id', id): no row with that id is no error
UpdatePlantRow(table, id, body) ==
    [k \in DOMAIN table |-> IF k = id THEN MergePlant(table[k], body) ELSE table[k]]

\* mutant: the delete has no filter
DeleteRowsUnfiltered(table, ids) == [k \in {} |-> table[k]]

\* .delete().eq('id', id) and .delete().in('id', ids)
DeleteRows(table, ids) == [k \in DOMAIN table \ ids |-> table[k]]

\* the bodies of plant requests: a complete profile, one with no name, and
\* one with ph_min above ph_max
PlantBodies ==
    {Profile("Kale", <<60, 65>>, <<15, 25>>), Profile(NoData, <<60, 65>>, <<15, 25>>),
     Profile("Chard", <<70, 60>>, <<15, 25>>)}

\* the :id of plant requests
PlantIds == {1, 2}

\* server.js:491-495: POST /api/plants, up to the await of the insert
PostPlant ==
    /\ Len(requests) < MaxRequests
    /\ \E body \in PlantBodies :
        /\ requests' = Append(requests, Request("POST /api/plants", NULL, body, "insert"))
        /\ writes' = Append(writes, Write(Len(requests) + 1, "plant_profiles", "insert"))
    /\ UNCHANGED <<webhook, clientVars, dispatcherVars, tableVars, resolverVars, sensor_data, auth_users, profiles>>

\* server.js:493-500: the insert resolves
InsertPlantReply(i) ==
    /\ Waiting(i, "insert")
    /\ \E error \in BOOLEAN :
        IF error
        THEN /\ requests' = [requests EXCEPT ![i] = Respond(@, 400, "error")]
             /\ UNCHANGED plant_profiles
        ELSE /\ requests' = [requests EXCEPT ![i] = Respond(@, 200, "success")]
             /\ plant_profiles' = InsertRow(plant_profiles, requests[i].body)
    /\ UNCHANGED <<webhook, clientVars, dispatcherVars, system_config, multiplant_profile, resolverVars,
                   sensor_data, auth_users, profiles, writes>>

\* server.js:529-536: PUT /api/plants/:id, up to the await of the update
PutPlant ==
    /\ Len(requests) < MaxRequests
    /\ \E id \in PlantIds, body \in PlantBodies :
        /\ requests' = Append(requests, Request("PUT /api/plants/:id", id, body, "update"))
        /\ writes' = Append(writes, Write(Len(requests) + 1, "plant_profiles", "update"))
    /\ UNCHANGED <<webhook, clientVars, dispatcherVars, tableVars, resolverVars, sensor_data, auth_users, profiles>>

\* server.js:533-551: the plant_profiles update settles: it resolves with
\* no error and the row is updated, it resolves with an error and the
\* multiplant_profile update is issued, or it rejects and the catch block
\* answers 400
UpdatePlantReply(i) ==
    /\ Waiting(i, "update")
    /\ \E outcome \in {"updated", "error", "rejected"} :
        CASE outcome = "updated" ->
                /\ requests' = [requests EXCEPT ![i] = Respond(@, 200, "success")]
                /\ plant_profiles' =
                        UpdatePlantRow(plant_profiles, requests[i].id, requests[i].body)
                /\ UNCHANGED writes
          [] outcome = "error" ->
                /\ requests' = [requests EXCEPT ![i].pc = "update multiplant"]
                /\ writes' = Append(writes, Write(i, "multiplant_profile", "update"))
                /\ UNCHANGED plant_profiles
          [] outcome = "rejected" ->
                /\ requests' = [requests EXCEPT ![i] = Respond(@, 400, "error")]
                /\ UNCHANGED <<plant_profiles, writes>>
    /\ UNCHANGED <<webhook, clientVars, dispatcherVars, system_config, multiplant_profile, resolverVars,
                   sensor_data, auth_users, profiles>>

\* server.js:540-550: the multiplant_profile update resolves
UpdateMultiplantReply(i) ==
    /\ Waiting(i, "update multiplant")
    /\ \E error \in BOOLEAN :
        IF error
        THEN /\ requests' = [requests EXCEPT ![i] = Respond(@, 400, "error")]
             /\ UNCHANGED multiplant_profile
        ELSE /\ requests' = [requests EXCEPT ![i] = Respond(@, 200, "success")]
             /\ multiplant_profile' =
                    UpdatePlantRow(multiplant_profile, requests[i].id, requests[i].body)
    /\ UNCHANGED <<webhook, clientVars, dispatcherVars, system_config, plant_profiles, resolverVars,
                   sensor_data, auth_users, profiles, writes>>

\* server.js:555-561: DELETE /api/plants/:id, up to the await of the delete
DeletePlant ==
    /\ Len(requests) < MaxRequests
    /\ \E id \in PlantIds :
        /\ requests' = Append(requests, Request("DELETE /api/plants/:id", id, NoBody, "delete"))
        /\ writes' = Append(writes, Write(Len(requests) + 1, "plant_profiles", "delete"))
    /\ UNCHANGED <<webhook, clientVars, dispatcherVars, tableVars, resolverVars, sensor_data, auth_users, profiles>>

\* mutant: deleting the selected plant clears system_config.selected_plant_id
DeletePlantReplyClearsSelection(i) ==
    /\ Waiting(i, "delete")
    /\ requests[i].op = "DELETE /api/plants/:id"
    /\ requests' = [requests EXCEPT ![i] = Respond(@, 200, "success")]
    /\ plant_profiles' = DeleteRows(plant_profiles, {requests[i].id})
    /\ system_config' =
            IF system_config.selected_plant_id = requests[i].id
            THEN [selected_plant_id |-> NULL] ELSE system_config
    /\ UNCHANGED <<webhook, clientVars, dispatcherVars, multiplant_profile, resolverVars,
                   sensor_data, auth_users, profiles, writes>>

\* server.js:558-566: the delete resolves
DeletePlantReply(i) ==
    /\ Waiting(i, "delete")
    /\ requests[i].op = "DELETE /api/plants/:id"
    /\ \E error \in BOOLEAN :
        IF error
        THEN /\ requests' = [requests EXCEPT ![i] = Respond(@, 400, "error")]
             /\ UNCHANGED plant_profiles
        ELSE /\ requests' = [requests EXCEPT ![i] = Respond(@, 200, "success")]
             /\ plant_profiles' = DeleteRows(plant_profiles, {requests[i].id})
    /\ UNCHANGED <<webhook, clientVars, dispatcherVars, system_config, multiplant_profile, resolverVars,
                   sensor_data, auth_users, profiles, writes>>

\* the value of req.body.ids: kind is undefined (no such field) | null |
\* string | number | object | array, elems the elements of an array
Ids(kind, elems) == [kind |-> kind, elems |-> elems]

\* the ids values of the requests: no array, the empty array, arrays of
\* stored ids, of an id twice, of ids no row has
IdsValues ==
    {Ids(kind, <<>>) : kind \in {"undefined", "null", "string", "number", "object", "array"}}
    \cup {Ids("array", elems) :
            elems \in {<<1>>, <<2, 3>>, <<1, 1>>, <<4>>, <<1, 4>>, <<1, 2, 3>>}}

\* mutant: an empty array passes the validation
InvalidIdsButEmpty(ids) == ids.kind \in {"undefined", "null"} \/ ids.kind # "array"

\* server.js:573: !ids || !Array.isArray(ids) || ids.length === 0
InvalidIds(ids) ==
    \/ ids.kind \in {"undefined", "null"}
    \/ ids.kind # "array"
    \/ Len(ids.elems) = 0

\* server.js:570-581: DELETE /api/sensor-data, up to the 400 response or the
\* await of the delete
DeleteSensorData ==
    /\ Len(requests) < MaxRequests
    /\ \E ids \in IdsValues :
        LET r == Request("DELETE /api/sensor-data", NULL, ids, "delete") IN
        IF InvalidIds(ids)
        THEN /\ requests' = Append(requests, Respond(r, 400, "error"))
             /\ UNCHANGED writes
        ELSE /\ requests' = Append(requests, r)
             /\ writes' = Append(writes, Write(Len(requests) + 1, "sensor_data", "delete"))
    /\ UNCHANGED <<webhook, clientVars, dispatcherVars, tableVars, resolverVars, sensor_data, auth_users, profiles>>

\* server.js:578-588: the delete resolves
DeleteSensorReply(i) ==
    /\ Waiting(i, "delete")
    /\ requests[i].op = "DELETE /api/sensor-data"
    /\ \E error \in BOOLEAN :
        IF error
        THEN /\ requests' = [requests EXCEPT ![i] = Respond(@, 500, "error")]
             /\ UNCHANGED sensor_data
        ELSE /\ requests' = [requests EXCEPT ![i] = Respond(@, 200, "success")]
             /\ sensor_data' =
                    DeleteRows(sensor_data,
                        {requests[i].body.elems[n] : n \in 1..Len(requests[i].body.elems)})
    /\ UNCHANGED <<webhook, clientVars, dispatcherVars, tableVars, resolverVars, auth_users, profiles, writes>>

-----------------------------------------------------------------------------
(* CRUD proxy: backend/server.js, the handlers of /api/users                 *)

\* a user request body; a field the body lacks is NoData
UserBody(email, password, role) == [email |-> email, password |-> password, role |-> role]

\* the bodies of user requests: complete, and lacking one field
UserBodies ==
    {UserBody("new@farm", "secret", "admin"),
     UserBody(NoData, "secret", "admin"),
     UserBody("new@farm", NoData, "admin"),
     UserBody("new@farm", "secret", NoData)}

\* the :id of user requests
UserIds == {1, 2}

\* the id the identity service gives a new user: one never used before
NewUserId ==
    1 + Greatest(DOMAIN auth_users \cup DOMAIN profiles \cup UserIds
                 \cup {requests[i].id : i \in 1..Len(requests)})

\* auth.admin.createUser({ email, password }): an error, or the new user;
\* without an email the identity service creates no user
CreateUserOutcomes(body) ==
    IF body.email = NoData THEN {"error"} ELSE {"error", "created"}

\* auth.admin.updateUserById and auth.admin.deleteUser: an error, or the
\* change; for an id the identity service does not know, an error
KnownUserOutcomes(id) ==
    IF id \in DOMAIN auth_users THEN {"error", "changed"} ELSE {"error"}

\* server.js:425-426: updateData = { email }, with the password when truthy
UpdatedUser(user, body) ==
    [email |-> IF body.email = NoData THEN user.email ELSE body.email,
     password |-> IF body.password = NoData THEN user.password ELSE body.password]

\* .insert([{ id, email, role }]) into profiles: an error when the id is taken
InsertProfileOutcomes(id) ==
    IF id \in DOMAIN profiles THEN {"error"} ELSE {"error", "inserted"}

\* .update({ email, role }).eq('id', id): absent fields keep their value
UpdatedProfile(profile, body) ==
    [email |-> IF body.email = NoData THEN profile.email ELSE body.email,
     role |-> IF body.role = NoData THEN profile.role ELSE body.role]

\* server.js:354-362: POST /api/users, up to the await of createUser
PostUser ==
    /\ Len(requests) < MaxRequests
    /\ \E body \in UserBodies :
        /\ requests' = Append(requests, Request("POST /api/users", NULL, body, "auth"))
        /\ writes' = Append(writes, Write(Len(requests) + 1, "auth", "createUser"))
    /\ UNCHANGED <<webhook, clientVars, dispatcherVars, tableVars, resolverVars, sensor_data, auth_users, profiles>>

\* mutant: the profile insert is issued whatever createUser returned
CreateUserReplyUnchecked(i) ==
    /\ Waiting(i, "auth")
    /\ requests[i].op = "POST /api/users"
    /\ requests' = [requests EXCEPT ![i].pc = "profile", ![i].id = NewUserId]
    /\ writes' = Append(writes, Write(i, "profiles", "insert"))
    /\ UNCHANGED <<webhook, clientVars, dispatcherVars, tableVars, resolverVars, sensor_data, auth_users, profiles>>

\* server.js:359-375: createUser resolves; on an error the catch responds
\* 400, else the profile insert is issued with the new user's id
CreateUserReply(i) ==
    /\ Waiting(i, "auth")
    /\ requests[i].op = "POST /api/users"
    /\ \E outcome \in CreateUserOutcomes(requests[i].body) :
        IF outcome = "error"
        THEN /\ requests' = [requests EXCEPT ![i] = Respond(@, 400, "error")]
             /\ UNCHANGED <<auth_users, writes>>
        ELSE /\ requests' = [requests EXCEPT ![i].pc = "profile", ![i].id = NewUserId]
             /\ auth_users' =
                    [id \in DOMAIN auth_users \cup {NewUserId} |->
                        IF id = NewUserId
                        THEN [email |-> requests[i].body.email,
                              password |-> requests[i].body.password]
                        ELSE auth_users[id]]
             /\ writes' = Append(writes, Write(i, "profiles", "insert"))
    /\ UNCHANGED <<webhook, clientVars, dispatcherVars, tableVars, resolverVars, sensor_data, profiles>>

\* server.js:369-389: the profile insert resolves
InsertProfileReply(i) ==
    /\ Waiting(i, "profile")
    /\ requests[i].op = "POST /api/users"
    /\ \E outcome \in InsertProfileOutcomes(requests[i].id) :
        IF outcome = "error"
        THEN /\ requests' = [requests EXCEPT ![i] = Respond(@, 400, "error")]
             /\ UNCHANGED profiles
        ELSE /\ requests' = [requests EXCEPT ![i] = Respond(@, 200, "success")]
             /\ profiles' =
                    [id \in DOMAIN profiles \cup {requests[i].id} |->
                        IF id = requests[i].id
                        THEN [email |-> requests[i].body.email,
                              role |-> requests[i].body.role]
                        ELSE profiles[id]]
    /\ UNCHANGED <<webhook, clientVars, dispatcherVars, tableVars, resolverVars, sensor_data, auth_users, writes>>

\* server.js:418-428: PUT /api/users/:id, up to the await of updateUserById
PutUser ==
    /\ Len(requests) < MaxRequests
    /\ \E id \in UserIds, body \in UserBodies :
        /\ requests' = Append(requests, Request("PUT /api/users/:id", id, body, "auth"))
        /\ writes' = Append(writes, Write(Len(requests) + 1, "auth", "updateUserById"))
    /\ UNCHANGED <<webhook, clientVars, dispatcherVars, tableVars, resolverVars, sensor_data, auth_users, profiles>>

\* server.js:428-438: updateUserById resolves
UpdateUserReply(i) ==
    /\ Waiting(i, "auth")
    /\ requests[i].op = "PUT /api/users/:id"
    /\ \E outcome \in KnownUserOutcomes(requests[i].id) :
        IF outcome = "error"
        THEN /\ requests' = [requests EXCEPT ![i] = Respond(@, 400, "error")]
             /\ UNCHANGED <<auth_users, writes>>
        ELSE /\ requests' = [requests EXCEPT ![i].pc = "profile"]
             /\ auth_users' = [auth_users EXCEPT ![requests[i].id] =
                                    UpdatedUser(@, requests[i].body)]
             /\ writes' = Append(writes, Write(i, "profiles", "update"))
    /\ UNCHANGED <<webhook, clientVars, dispatcherVars, tableVars, resolverVars, sensor_data, profiles>>

\* server.js:435-452: the profile update resolves
UpdateProfileReply(i) ==
    /\ Waiting(i, "profile")
    /\ requests[i].op = "PUT /api/users/:id"
    /\ \E error \in BOOLEAN :
        IF error
        THEN /\ requests' = [requests EXCEPT ![i] = Respond(@, 400, "error")]
             /\ UNCHANGED profiles
        ELSE /\ requests' = [requests EXCEPT ![i] = Respond(@, 200, "success")]
             /\ profiles' =
                    [id \in DOMAIN profiles |->
                        IF id = requests[i].id
                        THEN UpdatedProfile(profiles[id], requests[i].body)
                        ELSE profiles[id]]
    /\ UNCHANGED <<webhook, clientVars, dispatcherVars, tableVars, resolverVars, sensor_data, auth_users, writes>>

\* server.js:456-462: DELETE /api/users/:id, up to the await of deleteUser
DeleteUser ==
    /\ Len(requests) < MaxRequests
    /\ \E id \in UserIds :
        /\ requests' = Append(requests, Request("DELETE /api/users/:id", id, NoBody, "auth"))
        /\ writes' = Append(writes, Write(Len(requests) + 1, "auth", "deleteUser"))
    /\ UNCHANGED <<webhook, clientVars, dispatcherVars, tableVars, resolverVars, sensor_data, auth_users, profiles>>

\* server.js:462-472: deleteUser resolves
DeleteUserReply(i) ==
    /\ Waiting(i, "auth")
    /\ requests[i].op = "DELETE /api/users/:id"
    /\ \E outcome \in KnownUserOutcomes(requests[i].id) :
        IF outcome = "error"
        THEN /\ requests' = [requests EXCEPT ![i] = Respond(@, 400, "error")]
             /\ UNCHANGED <<auth_users, writes>>
        ELSE /\ requests' = [requests EXCEPT ![i].pc = "profile"]
             /\ auth_users' = DeleteRows(auth_users, {requests[i].id})
             /\ writes' = Append(writes, Write(i, "profiles", "delete"))
    /\ UNCHANGED <<webhook, clientVars, dispatcherVars, tableVars, resolverVars, sensor_data, profiles>>

\* server.js:469-486: the profile delete resolves
DeleteProfileReply(i) ==
    /\ Waiting(i, "profile")
    /\ requests[i].op = "DELETE /api/users/:id"
    /\ \E error \in BOOLEAN :
        IF error
        THEN /\ requests' = [requests EXCEPT ![i] = Respond(@, 400, "error")]
             /\ UNCHANGED profiles
        ELSE /\ requests' = [requests EXCEPT ![i] = Respond(@, 200, "success")]
             /\ profiles' = DeleteRows(profiles, {requests[i].id})
    /\ UNCHANGED <<webhook, clientVars, dispatcherVars, tableVars, resolverVars, sensor_data, auth_users, writes>>

\* server.js:393-407: GET /api/users answers with the rows of profiles
GetUsers == {[id |-> id, email |-> profiles[id].email, role |-> profiles[id].role] :
                id \in DOMAIN profiles}

-----------------------------------------------------------------------------
(* Webhook registration: backend/server.js, setWebhook and its two callers   *)

\* webhook is "none" (no webhook registered), "old" (the URL of an earlier
\* deployment) or "set" (the URL setWebhook registers)

\* setWebhook returned to its caller r: POST /api/set-webhook answers
\* res.json({ success: true, ... }) (server.js:603-604), the listen callback
\* ignores the promise (server.js:637)
AfterSetWebhook(r) ==
    IF r.op = "POST /api/set-webhook"
    THEN Respond(r, 200, "success")
    ELSE [r EXCEPT !.pc = "done"]

\* server.js:334-342: setWebhook up to its first await, called by `op`
CallSetWebhook(op) ==
    /\ IF ~botInit
       THEN /\ requests' = Append(requests,
                    AfterSetWebhook(Request(op, NULL, NoBody, "done")))
            /\ UNCHANGED writes
       ELSE /\ requests' = Append(requests, Request(op, NULL, NoBody, "deleteWebHook"))
            /\ writes' = Append(writes, Write(Len(requests) + 1, "telegram", "deleteWebHook"))
    /\ UNCHANGED <<webhook, clientVars, dispatcherVars, tableVars, resolverVars,
                   sensor_data, auth_users, profiles>>

\* server.js:601-603
PostSetWebhook ==
    /\ Len(requests) < MaxRequests
    /\ CallSetWebhook("POST /api/set-webhook")

\* server.js:635-637: the listen callback, once per process
Listen ==
    /\ Len(requests) < MaxRequests
    /\ \A i \in 1..Len(requests) : requests[i].op # "app.listen"
    /\ CallSetWebhook("app.listen")

\* server.js:342-349: bot.deleteWebHook settles
DeleteWebHookReply(i) ==
    /\ Waiting(i, "deleteWebHook")
    /\ \E error \in BOOLEAN :
        IF error
        THEN /\ requests' = [requests EXCEPT ![i] = AfterSetWebhook(@)]
             /\ UNCHANGED <<webhook, writes>>
        ELSE /\ webhook' = "none"
             /\ requests' = [requests EXCEPT ![i].pc = "setWebHook"]
             /\ writes' = Append(writes, Write(i, "telegram", "setWebHook"))
    /\ UNCHANGED <<clientVars, dispatcherVars, tableVars, resolverVars,
                   sensor_data, auth_users, profiles>>

\* server.js:346-349: bot.setWebHook settles
SetWebHookReply(i) ==
    /\ Waiting(i, "setWebHook")
    /\ \E error \in BOOLEAN :
        /\ webhook' = IF error THEN webhook ELSE "set"
        /\ requests' = [requests EXCEPT ![i] = AfterSetWebhook(@)]
    /\ UNCHANGED <<clientVars, dispatcherVars, tableVars, resolverVars,
                   sensor_data, auth_users, profiles, writes>>

-----------------------------------------------------------------------------
(* Raw-data view: frontend/src/components/RawDataView.js                     *)

\* RawDataView.js:19
itemsPerPage == 20

\* the getSelectedPlantData calls in flight at once
MaxFetches == 2

\* the handleDeleteSelected calls of a raw-data view
MaxDeletes == 1

\* the elements of a set of numbers, greatest first
RECURSIVE Descending(_)
Descending(S) ==
    IF S = {} THEN <<>>
    ELSE <<Greatest(S)>> \o Descending(S \ {Greatest(S)})

\* a stored reading of the raw-data view: a row with the plant it was
\* measured for and the time it was created
Reading(id, plant_name, created_at) ==
    [id |-> id, pump1 |-> FALSE, pump2 |-> FALSE, pump3 |-> FALSE, pump4 |-> FALSE,
     ph |-> 60, ec |-> 15, plant_name |-> plant_name, created_at |-> created_at]

\* RawDataView.js:68-72: .from('sensor_data').select('*')
\* .eq('plant_name', name).order('created_at', { ascending: false })
SensorData(name) ==
    LET ids == Descending({id \in DOMAIN sensor_data : sensor_data[id].plant_name = name})
        rows == [n \in 1..Len(ids) |-> sensor_data[ids[n]]]
    IN Sort(rows, "created_at", TRUE)

\* RawDataView.js:105: Math.ceil(chartData.length / itemsPerPage)
TotalPages == (Len(chartData) + itemsPerPage - 1) \div itemsPerPage

\* RawDataView.js:106-108: chartData.slice(startIndex, endIndex)
CurrentData ==
    LET startIndex == (currentPage - 1) * itemsPerPage
        endIndex == IF startIndex + itemsPerPage <= Len(chartData)
                    THEN startIndex + itemsPerPage ELSE Len(chartData)
    IN SubSeq(chartData, startIndex + 1, endIndex)

CurrentPageIds == {CurrentData[n].id : n \in 1..Len(CurrentData)}

\* the ids of the array selectedRows
SelectedIds == {selectedRows[n] : n \in 1..Len(selectedRows)}

\* RawDataView is the element rendered
RawDataShown == route = "/raw-data" /\ guard = "ready"

\* a sequence without its element k
Remove(seq, k) == SubSeq(seq, 1, k - 1) \o SubSeq(seq, k + 1, Len(seq))

\* the handler calls of the session that reached an await: those counted
\* by issued, and the saves
Calls == issued + Len(upserts)

\* a getSelectedPlantData call suspended at the await named by pc: closure
\* is the plantName of the render that created the function, plantId its
\* local selectedPlantId
Fetch(closure, pc, plantId) == [closure |-> closure, pc |-> pc, plantId |-> plantId]

\* the calls in flight without call k, which has returned
Returned(k) == Remove(fetches, k)

\* RawDataView.js:92-94 and 23-30: the interval of the last effect calls
\* getSelectedPlantData, up to the await of the system_config query
getSelectedPlantData ==
    /\ RawDataShown
    /\ Len(fetches) < MaxFetches
    /\ fetches' = Append(fetches, Fetch(plantName, "config", NULL))
    /\ UNCHANGED <<webhook, routeVars, selectVars, chartData, currentPage, selectedRows, plantName,
                   deleting, notificationVars, dispatcherVars, tableVars, resolverVars,
                   crudVars>>

\* RawDataView.js:26-45: the system_config query resolves: on an error the
\* call returns, else the plant_profiles query is issued
FetchConfigReply(k) ==
    /\ k \in 1..Len(fetches) /\ fetches[k].pc = "config"
    /\ \E resp \in ConfigResponses :
        fetches' = IF resp.error THEN Returned(k)
                   ELSE [fetches EXCEPT ![k].pc = "plant",
                                        ![k].plantId = resp.selected_plant_id]
    /\ UNCHANGED <<webhook, routeVars, selectVars, chartData, currentPage, selectedRows, plantName,
                   deleting, notificationVars, dispatcherVars, tableVars, resolverVars,
                   crudVars>>

\* RawDataView.js:61, 64 and 89-97: setPlantName(name) by call k, which goes
\* on to the sensor_data query with the plantName of its closure; a name
\* that differs re-creates getSelectedPlantData, so that the effect runs
\* again and calls it
SetPlantName(k, name) ==
    /\ plantName' = name
    /\ LET queried == [fetches EXCEPT ![k].pc = "sensor"] IN
        IF name = plantName THEN fetches' = queried
        ELSE /\ Len(fetches) < MaxFetches
             /\ fetches' = Append(queried, Fetch(name, "config", NULL))

\* RawDataView.js:41-72: the plant_profiles query resolves: on an error the
\* multiplant_profile query is issued, else the name is set when there is
\* data, and the sensor_data query is issued
FetchPlantReply(k) ==
    /\ k \in 1..Len(fetches) /\ fetches[k].pc = "plant"
    /\ \E resp \in NameResponses(plant_profiles, fetches[k].plantId, Glitches) :
        IF resp.error
        THEN /\ fetches' = [fetches EXCEPT ![k].pc = "multiplant"]
             /\ UNCHANGED plantName
        ELSE IF resp.name # NoData THEN SetPlantName(k, resp.name)
        ELSE /\ fetches' = [fetches EXCEPT ![k].pc = "sensor"]
             /\ UNCHANGED plantName
    /\ UNCHANGED <<webhook, routeVars, selectVars, chartData, currentPage, selectedRows,
                   deleting, notificationVars, dispatcherVars, tableVars, resolverVars,
                   crudVars>>

\* RawDataView.js:49-72: the multiplant_profile query resolves: on an error
\* the call returns, else the name is set when there is data, and the
\* sensor_data query is issued
FetchMultiplantReply(k) ==
    /\ k \in 1..Len(fetches) /\ fetches[k].pc = "multiplant"
    /\ \E resp \in NameResponses(multiplant_profile, fetches[k].plantId, Glitches) :
        IF resp.error
        THEN /\ fetches' = Returned(k)
             /\ UNCHANGED plantName
        ELSE IF resp.name # NoData THEN SetPlantName(k, resp.name)
        ELSE /\ fetches' = [fetches EXCEPT ![k].pc = "sensor"]
             /\ UNCHANGED plantName
    /\ UNCHANGED <<webhook, routeVars, selectVars, chartData, currentPage, selectedRows,
                   deleting, notificationVars, dispatcherVars, tableVars, resolverVars,
                   crudVars>>

\* RawDataView.js:68-80: the sensor_data query resolves: on an error the
\* state stays, else setChartData with the rows of the closure's plantName
FetchSensorReply(k) ==
    /\ k \in 1..Len(fetches) /\ fetches[k].pc = "sensor"
    /\ \E error \in BOOLEAN :
        chartData' = IF error THEN chartData ELSE SensorData(fetches[k].closure)
    /\ fetches' = Returned(k)
    /\ UNCHANGED <<webhook, routeVars, selectVars, currentPage, selectedRows, plantName,
                   deleting, notificationVars, dispatcherVars, tableVars, resolverVars,
                   crudVars>>

\* RawDataView.js:81-83: a query rejects instead of resolving: the await
\* throws, the catch logs and the call returns
FetchThrows(k) ==
    /\ k \in 1..Len(fetches)
    /\ fetches' = Returned(k)
    /\ UNCHANGED <<webhook, routeVars, selectVars, chartData, currentPage, selectedRows, plantName,
                   deleting, notificationVars, dispatcherVars, tableVars, resolverVars,
                   crudVars>>

\* RawDataView.js:114-118; the pagination buttons give the page before and
\* the page after the current one
handlePageChange ==
    /\ RawDataShown
    /\ \E newPage \in {currentPage - 1, currentPage + 1} :
        currentPage' = IF newPage > 0 /\ newPage <= TotalPages
                       THEN newPage ELSE currentPage
    /\ UNCHANGED <<webhook, routeVars, selectVars, chartData, selectedRows, plantName, fetches,
                   deleting, notificationVars, dispatcherVars, tableVars, resolverVars,
                   crudVars>>

\* RawDataView.js:123-127: the checkbox of a row of the current page, here
\* of its last row
handleSelectRow ==
    /\ RawDataShown
    /\ CurrentData # <<>>
    /\ \E id \in {CurrentData[Len(CurrentData)].id} :
        LET Other(rowId) == rowId # id IN
        selectedRows' = IF id \in SelectedIds
                        THEN SelectSeq(selectedRows, Other) ELSE Append(selectedRows, id)
    /\ UNCHANGED <<webhook, routeVars, selectVars, chartData, currentPage, plantName, fetches,
                   deleting, notificationVars, dispatcherVars, tableVars, resolverVars,
                   crudVars>>

\* RawDataView.js:129-140
handleSelectAllOnPage ==
    /\ RawDataShown
    /\ LET currentPageIds == [n \in 1..Len(CurrentData) |-> CurrentData[n].id]
           allOnPageSelected ==
            CurrentPageIds # {} /\ CurrentPageIds \subseteq SelectedIds
           NotOnPage(id) == id \notin CurrentPageIds
           NotSelected(id) == id \notin SelectedIds
       IN selectedRows' = IF allOnPageSelected
                          THEN SelectSeq(selectedRows, NotOnPage)
                          ELSE selectedRows \o SelectSeq(currentPageIds, NotSelected)
    /\ UNCHANGED <<webhook, routeVars, selectVars, chartData, currentPage, plantName, fetches,
                   deleting, notificationVars, dispatcherVars, tableVars, resolverVars,
                   crudVars>>

\* a handleDeleteSelected call suspended at the await of fetch: ids is the
\* body of its request, closure the plantName of the render that created
\* the handler, pc sent until the proxy has received the request and
\* received from then on, req the request of the proxy, and mounted whether
\* the view that was clicked is still rendered
Deleting(ids, closure, pc, req, mounted) ==
    [ids |-> ids, closure |-> closure, pc |-> pc, req |-> req, mounted |-> mounted]

\* RawDataView.js:142-162: handleDeleteSelected with rows selected and the
\* dialog confirmed, up to the await of fetch
handleDeleteSelected ==
    /\ RawDataShown
    /\ selectedRows # <<>>
    /\ Len(deleting) < MaxDeletes
    /\ Len(requests) < MaxDeletes
    /\ Calls < MaxCalls
    /\ deleting' = Append(deleting, Deleting(selectedRows, plantName, "sent", NULL, TRUE))
    /\ issued' = issued + 1
    /\ UNCHANGED <<webhook, authUser, userRole, route, guard, authCalls, selectVars, chartData, currentPage, selectedRows,
                   plantName, fetches, notificationVars, dispatcherVars, tableVars,
                   resolverVars, crudVars>>

\* server.js:570-581: the request of call k reaches the proxy: DELETE
\* /api/sensor-data, up to the 400 response or the await of the delete
DeleteArrives(k) ==
    /\ k \in 1..Len(deleting) /\ deleting[k].pc = "sent"
    /\ Len(requests) < MaxRequests
    /\ LET r == Request("DELETE /api/sensor-data", NULL,
                        Ids("array", deleting[k].ids), "delete") IN
        IF InvalidIds(r.body)
        THEN /\ requests' = Append(requests, Respond(r, 400, "error"))
             /\ UNCHANGED writes
        ELSE /\ requests' = Append(requests, r)
             /\ writes' = Append(writes, Write(Len(requests) + 1, "sensor_data", "delete"))
    /\ deleting' = [deleting EXCEPT ![k].pc = "received", ![k].req = Len(requests) + 1]
    /\ UNCHANGED <<webhook, routeVars, selectVars, chartData, currentPage, selectedRows,
                   plantName, fetches, notificationVars, dispatcherVars, tableVars,
                   resolverVars, sensor_data, auth_users, profiles>>

\* RawDataView.js:164-173: the response of the proxy reaches call k: on a
\* response that is not ok the handler throws and the selection stays, else
\* setSelectedRows([]) and the getSelectedPlantData of the handler's render
\* is called, up to the await of the system_config query; the set calls of
\* a view that is no longer rendered have no effect
DeleteSelectedReply(k) ==
    /\ k \in 1..Len(deleting) /\ deleting[k].pc = "received"
    /\ requests[deleting[k].req].pc = "done"
    /\ deleting' = Remove(deleting, k)
    /\ IF deleting[k].mounted /\ requests[deleting[k].req].status = 200
       THEN /\ Len(fetches) < MaxFetches
            /\ selectedRows' = <<>>
            /\ fetches' = Append(fetches, Fetch(deleting[k].closure, "config", NULL))
       ELSE UNCHANGED <<selectedRows, fetches>>
    /\ UNCHANGED <<webhook, routeVars, selectVars, chartData, currentPage, plantName,
                   notificationVars, dispatcherVars, tableVars, resolverVars, crudVars>>

\* RawDataView.js:156-162 and 175-178: the fetch of call k rejects, before
\* the request has reached the proxy or with the response lost: the catch
\* alerts and the selection stays
DeleteSelectedFails(k) ==
    /\ k \in 1..Len(deleting)
    /\ deleting' = Remove(deleting, k)
    /\ UNCHANGED <<webhook, routeVars, selectVars, chartData, currentPage, selectedRows,
                   plantName, fetches, notificationVars, dispatcherVars, tableVars,
                   resolverVars, crudVars>>

-----------------------------------------------------------------------------
(* Select-plant page: frontend/src/components/SelectPlant.js                 *)

\* a call of SelectPlant suspended at the await named by pc: fetchData at
\* plants or config, handleChange at update with the id chosen
SelectCall(op, pc, id) == [op |-> op, pc |-> pc, id |-> id]

\* SelectPlant is the element rendered
SelectPlantShown == route = "/select-plant" /\ guard = "ready"

\* SelectPlant.js:17-34: the plant_profiles query of fetchData resolves: on
\* an error the call returns, else setPlants and the system_config query is
\* issued
FetchDataPlantsReply(k) ==
    /\ k \in 1..Len(selectCalls)
    /\ selectCalls[k].op = "fetchData" /\ selectCalls[k].pc = "plants"
    /\ \E error \in BOOLEAN :
        IF error
        THEN /\ selectCalls' = Remove(selectCalls, k)
             /\ UNCHANGED selectPlants
        ELSE /\ selectCalls' = [selectCalls EXCEPT ![k].pc = "config"]
             /\ selectPlants' = DOMAIN plant_profiles
    /\ UNCHANGED <<webhook, routeVars, configId, tableViewVars, notificationVars,
                   dispatcherVars, tableVars, resolverVars, crudVars>>

\* SelectPlant.js:30-46: the system_config query of fetchData resolves: on
\* an error the call returns, else setConfigId with the id of the row
FetchDataConfigReply(k) ==
    /\ k \in 1..Len(selectCalls)
    /\ selectCalls[k].op = "fetchData" /\ selectCalls[k].pc = "config"
    /\ selectCalls' = Remove(selectCalls, k)
    /\ \E error \in BOOLEAN : configId' = IF error THEN configId ELSE 1
    /\ UNCHANGED <<webhook, routeVars, selectPlants, tableViewVars, notificationVars,
                   dispatcherVars, tableVars, resolverVars, crudVars>>

\* SelectPlant.js:53-64: handleChange for an option of the dropdown, a plant
\* of the list fetched, once the config id is known; up to the await of the
\* update
handleChange ==
    /\ SelectPlantShown
    /\ configId # NULL
    /\ Calls < MaxCalls
    /\ \E selectedId \in selectPlants :
        selectCalls' = Append(selectCalls, SelectCall("handleChange", "update", selectedId))
    /\ issued' = issued + 1
    /\ UNCHANGED <<webhook, authUser, userRole, route, guard, authCalls, selectPlants, configId, tableViewVars,
                   notificationVars, dispatcherVars, tableVars, resolverVars, crudVars>>

\* SelectPlant.js:61-70: the update of system_config resolves, with an error
\* that is logged or with selected_plant_id set; the page may have been left
UpdateConfigReply(k) ==
    /\ k \in 1..Len(selectCalls)
    /\ selectCalls[k].op = "handleChange" /\ selectCalls[k].pc = "update"
    /\ selectCalls' = Remove(selectCalls, k)
    /\ \E error \in BOOLEAN :
        system_config' =
            IF error THEN system_config
            ELSE [system_config EXCEPT !.selected_plant_id = selectCalls[k].id]
    /\ UNCHANGED <<webhook, routeVars, selectPlants, configId, tableViewVars,
                   notificationVars, dispatcherVars, plant_profiles, multiplant_profile,
                   resolverVars, crudVars>>

-----------------------------------------------------------------------------
(* Routes: the App component, ProtectedRoute, and the pages' navigation      *)

\* App.js:66-154: the paths of the Route elements
PublicPaths == {"/login", "/register"}
AdminPaths == {"/manage-users", "/manage-plants"}
UserPaths ==
    {"/", "/dashboard", "/view-data", "/view-optimised-level", "/view-graph",
     "/select-plant", "/raw-data", "/multiplant-selector"}
Paths == PublicPaths \cup UserPaths \cup AdminPaths

\* App.js: the requireAdmin prop of the ProtectedRoute around the element of
\* `path`: true for /manage-users and /manage-plants, defaulted to false for
\* the others
RequireAdmin(path) == path \in AdminPaths

\* App.js:50-54: what a ProtectedRoute that has a user renders for `path`
\* with `role` stored: the redirection to /dashboard, or its children
AdminOnly(role, path) ==
    IF RequireAdmin(path) /\ role # "admin" THEN "/dashboard" ELSE path

\* App.js:46-54: what a ProtectedRoute that is no longer loading renders for
\* `path`: the location it redirects to, or the path of its children
ProtectedRoute(user, role, path) ==
    IF user = NULL THEN "/login" ELSE AdminOnly(role, path)

\* the page element rendered at location `path` with the ProtectedRoute in
\* state g: the element of a public route, the children of a ProtectedRoute
\* that is ready, or its Loading... text
Shown(path, g) == IF path \in PublicPaths \/ g = "ready" THEN path ELSE "loading"

\* MultiPlantSelector when the element rendered changes from `old` to
\* `new`: it is constructed when it is rendered and its state is dropped
\* when it is left, while the upserts it issued stay in flight
ShowSelector(old, new) ==
    IF old # new /\ "/multiplant-selector" \in {old, new}
    THEN /\ plants' = <<>>
         /\ selectedPlantIds' = {}
         /\ calculatedRange' = NullRange
         /\ saving' = FALSE
         /\ upserts' = [k \in 1..Len(upserts) |->
                            [upserts[k] EXCEPT !.mounted = FALSE]]
    ELSE UNCHANGED resolverVars

\* RawDataView.js:14-18 and 89-97: RawDataView when the element rendered
\* changes: rendered, it is constructed and its effect calls
\* getSelectedPlantData, up to the await of the system_config query; left,
\* its state is dropped with the calls whose set calls have no effect any
\* more, while the delete requests it sent stay in flight
ShowRawData(old, new) ==
    IF old # new /\ "/raw-data" \in {old, new}
    THEN /\ chartData' = <<>>
         /\ currentPage' = 1
         /\ selectedRows' = <<>>
         /\ plantName' = ""
         /\ fetches' = IF new = "/raw-data" THEN <<Fetch("", "config", NULL)>> ELSE <<>>
         /\ deleting' = [k \in 1..Len(deleting) |->
                            [deleting[k] EXCEPT !.mounted = FALSE]]
    ELSE UNCHANGED tableViewVars

\* SelectPlant.js:6-50: SelectPlant when the element rendered changes:
\* rendered, it is constructed and its effect calls fetchData, up to the
\* await of the plant_profiles query; left, its state is dropped with the
\* fetchData call, while the updates it issued stay in flight
ShowSelectPlant(old, new) ==
    IF old # new /\ "/select-plant" \in {old, new}
    THEN LET Update(c) == c.op = "handleChange" IN
         /\ selectPlants' = {}
         /\ configId' = NULL
         /\ selectCalls' =
                SelectSeq(selectCalls, Update)
                \o (IF new = "/select-plant"
                    THEN <<SelectCall("fetchData", "plants", NULL)>> ELSE <<>>)
    ELSE UNCHANGED selectVars

\* Register.js:9-11: Register when the element rendered changes: the calls
\* of an instance that was left no longer disable the button of a new one
ShowRegister(old, new, pending) ==
    authCalls' =
        IF old # new /\ old = "/register"
        THEN [k \in 1..Len(pending) |-> [pending[k] EXCEPT !.mounted = FALSE]]
        ELSE pending

\* the elements of the pages when the element rendered changes
Show(old, new, pending) ==
    /\ ShowSelector(old, new)
    /\ ShowRawData(old, new)
    /\ ShowSelectPlant(old, new)
    /\ ShowRegister(old, new, pending)

\* App.js:21-55 and 66-154: the location becomes `path`, with `role` the
\* stored role: for a public route its element is rendered; for a protected
\* route the ProtectedRoute that is rendered stays as it is, ready with the
\* user it has or loading, and one that is newly rendered calls getUser
\* and is loading
Go(path, role, pending) ==
    LET g == IF path \in PublicPaths THEN "none"
             ELSE IF guard = "none" THEN "loading" ELSE guard
        to == IF g = "ready" THEN AdminOnly(role, path) ELSE path
    IN /\ route' = to
       /\ guard' = g
       /\ Show(Shown(route, guard), Shown(to, g), pending)

\* a location change: navigate(...) by a nav link of Layout.js, a card of
\* Dashboard.js or a button of Login and Register
Navigate ==
    /\ \E path \in Paths : Go(path, userRole, authCalls)
    /\ UNCHANGED <<webhook, authUser, userRole, issued, notificationVars,
                   dispatcherVars, tableVars, crudVars>>

\* App.js:33-54: getUser of the ProtectedRoute rendered resolves, with the
\* user of the session or with none: setUser, setLoading(false), and the
\* children or a redirection are rendered
GetUserReply ==
    /\ guard = "loading"
    /\ \E user \in {authUser, NULL} :
        LET to == ProtectedRoute(user, userRole, route) IN
        /\ route' = to
        /\ guard' = IF user = NULL THEN "none" ELSE "ready"
        /\ Show("loading", to, authCalls)
    /\ UNCHANGED <<webhook, authUser, userRole, issued, notificationVars,
                   dispatcherVars, tableVars, crudVars>>

\* a handleRegister or handleLogout call suspended at the await named by
\* pc; mounted: the Register instance that was submitted is still rendered
AuthCall(op, pc, id, email, mounted) ==
    [op |-> op, pc |-> pc, id |-> id, email |-> email, mounted |-> mounted]

\* the e-mail addresses typed into the register form
RegisterEmails == {"new@farm"}

\* Register.js:13-29: the form is submitted with matching passwords, up to
\* the await of auth.signUp; the button is disabled while a call of this
\* instance is pending
handleRegister ==
    /\ route = "/register"
    /\ \A k \in 1..Len(authCalls) : ~authCalls[k].mounted
    /\ Calls < MaxCalls
    /\ \E email \in RegisterEmails :
        authCalls' = Append(authCalls, AuthCall("register", "signUp", NULL, email, TRUE))
    /\ issued' = issued + 1
    /\ UNCHANGED <<webhook, authUser, userRole, route, guard, selectVars, tableViewVars,
                   notificationVars, dispatcherVars, tableVars, resolverVars, crudVars>>

\* auth.signUp({ email, password }): an error, or the new user; an address
\* that is registered already is refused
SignUpOutcomes(email) ==
    IF \E id \in DOMAIN auth_users : auth_users[id].email = email
    THEN {"error"} ELSE {"error", "created"}

\* Register.js:26-42: auth.signUp of call k resolves: on an error the
\* handler ends (setError), else the identity service has the new user,
\* holds its session unless the address must be confirmed first, and the
\* profile insert is issued
RegisterSignUpReply(k) ==
    /\ k \in 1..Len(authCalls)
    /\ authCalls[k].op = "register" /\ authCalls[k].pc = "signUp"
    /\ \E outcome \in SignUpOutcomes(authCalls[k].email), session \in BOOLEAN :
        IF outcome = "error"
        THEN /\ authCalls' = Remove(authCalls, k)
             /\ UNCHANGED <<auth_users, authUser>>
        ELSE /\ auth_users' =
                 [id \in DOMAIN auth_users \cup {NewUserId} |->
                     IF id = NewUserId
                     THEN [email |-> authCalls[k].email, password |-> "secret"]
                     ELSE auth_users[id]]
             /\ authUser' = IF session THEN NewUserId ELSE authUser
             /\ authCalls' = [authCalls EXCEPT ![k].pc = "insert", ![k].id = NewUserId]
    /\ UNCHANGED <<webhook, userRole, route, guard, issued, selectVars, tableViewVars,
                   notificationVars, dispatcherVars, tableVars, resolverVars,
                   sensor_data, profiles, requests, writes>>

\* Register.js:34-54: the profile insert of call k resolves: on an error
\* the handler ends (setError), else profiles has the row with role 'user',
\* the role is stored and navigate('/dashboard')
RegisterProfileReply(k) ==
    /\ k \in 1..Len(authCalls)
    /\ authCalls[k].op = "register" /\ authCalls[k].pc = "insert"
    /\ \E outcome \in InsertProfileOutcomes(authCalls[k].id) :
        IF outcome = "error"
        THEN /\ authCalls' = Remove(authCalls, k)
             /\ UNCHANGED <<profiles, userRole, route, guard, selectVars, tableViewVars,
                            resolverVars>>
        ELSE /\ profiles' =
                 [id \in DOMAIN profiles \cup {authCalls[k].id} |->
                     IF id = authCalls[k].id
                     THEN [email |-> authCalls[k].email, role |-> "user"]
                     ELSE profiles[id]]
             /\ userRole' = "user"
             /\ Go("/dashboard", "user", Remove(authCalls, k))
    /\ UNCHANGED <<webhook, authUser, issued, notificationVars, dispatcherVars, tableVars,
                   sensor_data, auth_users, requests, writes>>

\* Layout.js:112-113 and 234: the logout button of a page inside the
\* layout, which is never disabled, up to the await of auth.signOut
handleLogout ==
    /\ Shown(route, guard) \notin PublicPaths \cup {"loading"}
    /\ Calls < MaxCalls
    /\ authCalls' = Append(authCalls, AuthCall("logout", "signOut", NULL, NoData, FALSE))
    /\ issued' = issued + 1
    /\ UNCHANGED <<webhook, authUser, userRole, route, guard, selectVars, tableViewVars,
                   notificationVars, dispatcherVars, tableVars, resolverVars, crudVars>>

\* Layout.js:113: auth.signOut of call k takes effect: the session is ended,
\* or it stays on an error, which the handler does not look at
SignOutReply(k) ==
    /\ k \in 1..Len(authCalls)
    /\ authCalls[k].op = "logout" /\ authCalls[k].pc = "signOut"
    /\ \E error \in BOOLEAN : authUser' = IF error THEN authUser ELSE NULL
    /\ authCalls' = [authCalls EXCEPT ![k].pc = "resume"]
    /\ UNCHANGED <<webhook, userRole, route, guard, issued, selectVars, tableViewVars,
                   notificationVars, dispatcherVars, tableVars, resolverVars, crudVars>>

\* Layout.js:114-115: call k of handleLogout resumes: the stored role is
\* removed and navigate('/login')
LogoutResume(k) ==
    /\ k \in 1..Len(authCalls)
    /\ authCalls[k].op = "logout" /\ authCalls[k].pc = "resume"
    /\ userRole' = NoData
    /\ Go("/login", NoData, Remove(authCalls, k))
    /\ UNCHANGED <<webhook, authUser, issued, notificationVars, dispatcherVars, tableVars,
                   crudVars>>

\* the handlers of MultiPlantSelector run while it is rendered
SelectorShown == route = "/multiplant-selector" /\ guard = "ready"
SelectorFetchPlants == SelectorShown /\ FetchPlants
SelectorSelectPlants == SelectorShown /\ SelectPlants
SelectorSave ==
    /\ SelectorShown
    /\ Calls < MaxCalls
    /\ saveToSupabase

-----------------------------------------------------------------------------
(* Notifications: frontend/src/context/NotificationContext.js                *)

\* Dashboard.js:161-172: the messages of the pumps whose flag is set, in the
\* order of the addNotification calls
PumpMessages(row) ==
    LET flag == <<row.pump1, row.pump2, row.pump3, row.pump4>>
        F[k \in 0..4] ==
            IF k = 0 THEN <<>>
            ELSE IF flag[k] THEN Append(F[k - 1], k) ELSE F[k - 1]
    IN F[4]

\* NotificationContext.js:88-96: addNotification(message) with Date.now()
\* reading t
addNotification(list, message, t) == <<[id |-> t, message |-> message]>> \o list

\* the list after the addNotification calls for `messages`, the clock
\* reading t at the first call and later[k] milliseconds more at call k + 1
RECURSIVE AddAll(_, _, _, _)
AddAll(list, messages, t, later) ==
    IF messages = <<>> THEN list
    ELSE AddAll(addNotification(list, messages[1], t), Tail(messages),
                t + later[1], Tail(later))

\* Dashboard.js:146-176: the subscription callback for an inserted reading;
\* between two addNotification calls of one callback the clock stays or
\* advances by a millisecond
OnPumpStatus ==
    /\ route \in {"/", "/dashboard"} /\ guard = "ready"
    /\ \E row \in {r \in AllRows : r.id = 1 /\ r.ph = 5},
          later \in [1..3 -> {0, 1}] :
        LET messages == PumpMessages(row)
            last == now + later[1] + later[2] + later[3]
        IN /\ messages # <<>>
           /\ Len(notifications) + Len(messages) <= MaxNotifications
           /\ last <= MaxClock
           /\ notifications' = AddAll(notifications, messages, now, <<later[1], later[2], later[3]>>)
           /\ now' = last
    /\ UNCHANGED <<webhook, routeVars, selectVars, tableViewVars,
                   dispatcherVars, tableVars, resolverVars, crudVars>>

\* time passes between two callbacks
Tick ==
    /\ now < MaxClock
    /\ now' = now + 1
    /\ UNCHANGED <<webhook, routeVars, selectVars, tableViewVars, notifications,
                   dispatcherVars, tableVars, resolverVars, crudVars>>

\* NotificationContext.js:98-100: prev.filter(n => n.id !== id)
Filter(list, id) ==
    LET Kept(n) == n.id # id IN SelectSeq(list, Kept)

\* Layout.js:212: the close button of a notification of the list
removeNotification ==
    /\ \E k \in 1..Len(notifications) :
        notifications' = Filter(notifications, notifications[k].id)
    /\ UNCHANGED <<webhook, routeVars, selectVars, tableViewVars, now,
                   dispatcherVars, tableVars, resolverVars, crudVars>>

\* NotificationContext.js:102-104
clearAllNotifications ==
    /\ notifications # <<>>
    /\ notifications' = <<>>
    /\ UNCHANGED <<webhook, routeVars, selectVars, tableViewVars, now,
                   dispatcherVars, tableVars, resolverVars, crudVars>>

-----------------------------------------------------------------------------
(* Specifications *)

\* ViewGraph.js:708-711: the selector's initial state
ResolverIdle ==
    /\ plants = <<>>
    /\ selectedPlantIds = {}
    /\ calculatedRange = NullRange
    /\ saving = FALSE
    /\ upserts = <<>>

\* the tables: plant_profiles has row 1, multiplant_profile has row 2
Tables ==
    /\ plant_profiles = (1 :> Profile("Lettuce", <<55, 65>>, <<10, 20>>))
    /\ multiplant_profile = (2 :> Profile("Multiplant", <<60, 65>>, <<15, 20>>))

\* no request received; sensor_data, the identity service and profiles empty
CrudIdle ==
    /\ sensor_data = <<>>
    /\ auth_users = <<>>
    /\ profiles = <<>>
    /\ requests = <<>>
    /\ writes = <<>>

\* no browser session is open: nobody is signed in, the raw-data table and the
\* notification list are as their useState calls construct them
RouteIdle ==
    /\ authUser = NULL
    /\ userRole = NoData
    /\ route = "/login"
    /\ guard = "none"
    /\ authCalls = <<>>
    /\ issued = 0

\* SelectPlant.js:6-8, not rendered: no call in flight
SelectIdle ==
    /\ selectPlants = {}
    /\ configId = NULL
    /\ selectCalls = <<>>

TableViewIdle ==
    /\ chartData = <<>>
    /\ currentPage = 1
    /\ selectedRows = <<>>
    /\ plantName = ""
    /\ fetches = <<>>
    /\ deleting = <<>>

NotificationIdle ==
    /\ notifications = <<>>
    /\ now = 1

ClientIdle ==
    /\ webhook = "none"
    /\ RouteIdle
    /\ SelectIdle
    /\ TableViewIdle
    /\ NotificationIdle

DispatcherInit ==
    /\ lastSeenId = NULL
    /\ botInit \in BOOLEAN
    /\ handlers = <<>>
    /\ calls = <<>>
    /\ crashed = FALSE

\* the event feed: the Multiplant profile is selected, and the name queries
\* answer from the tables
Init ==
    /\ DispatcherInit
    /\ ClientIdle
    /\ Tables
    /\ system_config = [selected_plant_id |-> 2]
    /\ ResolverIdle
    /\ CrudIdle

Next ==
    \/ Deliver(FeedRows, MaxEvents)
    \/ \E i \in 1..MaxEvents :
        \/ ConfigReply(i)
        \/ PlantReply(i, {})
        \/ MultiplantReply(i, {})
        \/ LookupThrows(i)
        \/ SendResolves(i)
        \/ SendRejects(i)

Spec == Init /\ [][Next]_vars

\* a longer feed of readings that all have a pump flag set; the profile of
\* plant_profiles row 1 is selected, so the fallback query is never issued
InitFeed ==
    /\ DispatcherInit
    /\ ClientIdle
    /\ Tables
    /\ system_config = [selected_plant_id |-> 1]
    /\ ResolverIdle
    /\ CrudIdle

NextFeed ==
    \/ Deliver(PumpedRows, MaxFeedEvents)
    \/ \E i \in 1..MaxFeedEvents :
        \/ ConfigReply(i)
        \/ PlantReply(i, {})
        \/ LookupThrows(i)
        \/ SendResolves(i)
        \/ SendRejects(i)

SpecFeed == InitFeed /\ [][NextFeed]_vars

\* single readings with every flag combination, selection and reply
InitMsg ==
    /\ DispatcherInit
    /\ ClientIdle
    /\ Tables
    /\ system_config \in [selected_plant_id : SelectableIds]
    /\ ResolverIdle
    /\ CrudIdle

NextMsg ==
    \/ Deliver(AllRows, MaxMsgEvents)
    \/ \E i \in 1..MaxMsgEvents :
        \/ ConfigReply(i)
        \/ PlantReply(i, Glitches)
        \/ MultiplantReply(i, Glitches)
        \/ LookupThrows(i)
        \/ SendResolves(i)
        \/ SendRejects(i)

SpecMsg == InitMsg /\ [][NextMsg]_vars

\* the selector over every content of plant_profiles; the dispatcher is idle
InitResolver ==
    /\ DispatcherInit /\ botInit
    /\ ClientIdle
    /\ \E t \in PlantTables : plant_profiles = Named(t)
    /\ multiplant_profile = <<>>
    /\ system_config = [selected_plant_id |-> NULL]
    /\ ResolverIdle
    /\ CrudIdle

NextResolver == FetchPlants \/ SelectPlants

SpecResolver == InitResolver /\ [][NextResolver]_vars

\* the selector with saving, over four stored profiles: two that overlap,
\* one whose pH only touches the first, and one with no pH in common with it;
\* multiplant_profile is empty or holds a row saved earlier
SavePlants ==
    <<Profile("Lettuce", <<55, 65>>, <<10, 20>>),
      Profile("Basil", <<60, 70>>, <<15, 25>>),
      Profile("Mint", <<50, 55>>, <<10, 20>>),
      Profile("Kale", <<60, 65>>, <<15, 25>>)>>

PriorMultiplant == Profile("Multiplant", <<58, 62>>, <<12, 18>>)

InitSave ==
    /\ DispatcherInit /\ botInit
    /\ ClientIdle
    /\ plant_profiles = SavePlants
    /\ multiplant_profile \in {<<>>, <<PriorMultiplant>>}
    /\ system_config = [selected_plant_id |-> NULL]
    /\ ResolverIdle
    /\ CrudIdle

NextSave == FetchPlants \/ SelectPlants \/ saveToSupabase \/ UpsertReply

SpecSave == InitSave /\ [][NextSave]_vars

\* the plant handlers of the proxy and the selector's save; the row of
\* multiplant_profile has the id of a plant_profiles row
InitPlants ==
    /\ DispatcherInit /\ botInit
    /\ ClientIdle
    /\ plant_profiles = <<Profile("Lettuce", <<55, 65>>, <<10, 20>>),
                          Profile("Basil", <<60, 70>>, <<15, 25>>)>>
    /\ multiplant_profile = <<PriorMultiplant>>
    /\ system_config = [selected_plant_id |-> NULL]
    /\ ResolverIdle
    /\ CrudIdle

NextPlants ==
    \/ PostPlant
    \/ PutPlant
    \/ DeletePlant
    \/ \E i \in 1..MaxRequests :
        \/ InsertPlantReply(i)
        \/ UpdatePlantReply(i)
        \/ UpdateMultiplantReply(i)
        \/ DeletePlantReply(i)
    \/ FetchPlants
    \/ SelectPlants
    \/ saveToSupabase
    \/ UpsertReply

SpecPlants == InitPlants /\ [][NextPlants]_vars

\* the stored readings
SensorRows ==
    <<Row(1, TRUE, FALSE, FALSE, FALSE, 60, 8),
      Row(2, FALSE, FALSE, FALSE, FALSE, 61, 15),
      Row(3, FALSE, FALSE, TRUE, FALSE, 52, 16)>>

\* the sensor-data handler of the proxy over three stored readings
InitSensor ==
    /\ DispatcherInit /\ botInit
    /\ ClientIdle
    /\ Tables
    /\ system_config = [selected_plant_id |-> 1]
    /\ ResolverIdle
    /\ sensor_data = SensorRows
    /\ auth_users = <<>>
    /\ profiles = <<>>
    /\ requests = <<>>
    /\ writes = <<>>

NextSensor ==
    \/ DeleteSensorData
    \/ \E i \in 1..MaxRequests : DeleteSensorReply(i)

SpecSensor == InitSensor /\ [][NextSensor]_vars

\* the stored users: an administrator and a user, known to the identity
\* service and to profiles
StoredUsers == <<[email |-> "admin@farm", password |-> "adminpw"],
                 [email |-> "user@farm", password |-> "userpw"]>>
StoredProfiles == <<[email |-> "admin@farm", role |-> "admin"],
                    [email |-> "user@farm", role |-> "user"]>>

\* the user handlers of the proxy
InitUsers ==
    /\ DispatcherInit /\ botInit
    /\ ClientIdle
    /\ Tables
    /\ system_config = [selected_plant_id |-> 1]
    /\ ResolverIdle
    /\ sensor_data = <<>>
    /\ auth_users = StoredUsers
    /\ profiles = StoredProfiles
    /\ requests = <<>>
    /\ writes = <<>>

NextUsers ==
    \/ PostUser
    \/ PutUser
    \/ DeleteUser
    \/ \E i \in 1..MaxRequests :
        \/ CreateUserReply(i)
        \/ InsertProfileReply(i)
        \/ UpdateUserReply(i)
        \/ UpdateProfileReply(i)
        \/ DeleteUserReply(i)
        \/ DeleteProfileReply(i)

SpecUsers == InitUsers /\ [][NextUsers]_vars

\* every handler of the proxy that writes, over the stored users, plants
\* and readings
InitProxy ==
    /\ DispatcherInit /\ botInit
    /\ ClientIdle
    /\ Tables
    /\ system_config = [selected_plant_id |-> 1]
    /\ ResolverIdle
    /\ sensor_data = SensorRows
    /\ auth_users = StoredUsers
    /\ profiles = StoredProfiles
    /\ requests = <<>>
    /\ writes = <<>>

NextProxy ==
    \/ PostUser
    \/ PutUser
    \/ DeleteUser
    \/ PostPlant
    \/ PutPlant
    \/ DeletePlant
    \/ DeleteSensorData
    \/ \E i \in 1..MaxRequests :
        \/ CreateUserReply(i)
        \/ InsertProfileReply(i)
        \/ UpdateUserReply(i)
        \/ UpdateProfileReply(i)
        \/ DeleteUserReply(i)
        \/ DeleteProfileReply(i)
        \/ InsertPlantReply(i)
        \/ UpdatePlantReply(i)
        \/ UpdateMultiplantReply(i)
        \/ DeletePlantReply(i)
        \/ DeleteSensorReply(i)

SpecProxy == InitProxy /\ [][NextProxy]_vars

\* the dispatcher next to DELETE /api/plants/:id: plant_profiles row 1 is
\* selected, every reading has pump1 set, and the name queries answer from
\* the tables as the delete leaves them
InitDangling ==
    /\ DispatcherInit
    /\ ClientIdle
    /\ Tables
    /\ system_config = [selected_plant_id |-> 1]
    /\ ResolverIdle
    /\ CrudIdle

NextDangling ==
    \/ DeletePlant
    \/ \E i \in 1..MaxRequests : DeletePlantReply(i)
    \/ Deliver(PumpedRows, MaxMsgEvents)
    \/ \E i \in 1..MaxMsgEvents :
        \/ ConfigReply(i)
        \/ PlantReply(i, {})
        \/ MultiplantReply(i, {})
        \/ LookupThrows(i)
        \/ SendResolves(i)
        \/ SendRejects(i)

SpecDangling == InitDangling /\ [][NextDangling]_vars

\* the webhook registration: the bot constructed or not, a webhook of an
\* earlier deployment registered or none
InitWebhook ==
    /\ DispatcherInit
    /\ webhook \in {"none", "old"}
    /\ RouteIdle
    /\ SelectIdle
    /\ TableViewIdle
    /\ NotificationIdle
    /\ Tables
    /\ system_config = [selected_plant_id |-> 1]
    /\ ResolverIdle
    /\ CrudIdle

NextWebhook ==
    \/ Listen
    \/ PostSetWebhook
    \/ \E i \in 1..MaxRequests :
        \/ DeleteWebHookReply(i)
        \/ SetWebHookReply(i)

SpecWebhook == InitWebhook /\ [][NextWebhook]_vars

\* the stored readings of the raw-data view: n readings of Lettuce and, as
\* row 2, one of Basil; row 3 was created before every other row
StoredReadings(n) ==
    [id \in 1..(n + 1) |->
        Reading(id, IF id = 2 THEN "Basil" ELSE "Lettuce", IF id = 3 THEN 0 ELSE id)]

\* a browser session opened on /login: nobody signed in, or one of the
\* stored users signed in with the role of its profile stored; two profiles
\* that overlap and two readings are stored, Lettuce is selected
InitRoutes ==
    /\ DispatcherInit /\ botInit
    /\ webhook = "none"
    /\ \E id \in {NULL} \cup DOMAIN StoredProfiles :
        /\ authUser = id
        /\ userRole = IF id = NULL THEN NoData ELSE StoredProfiles[id].role
    /\ route = "/login"
    /\ guard = "none"
    /\ authCalls = <<>>
    /\ issued = 0
    /\ SelectIdle
    /\ TableViewIdle
    /\ NotificationIdle
    /\ plant_profiles = <<Profile("Lettuce", <<55, 65>>, <<10, 20>>),
                          Profile("Basil", <<60, 70>>, <<15, 25>>)>>
    /\ multiplant_profile = <<>>
    /\ system_config = [selected_plant_id |-> 1]
    /\ ResolverIdle
    /\ sensor_data = StoredReadings(1)
    /\ auth_users = StoredUsers
    /\ profiles = StoredProfiles
    /\ requests = <<>>
    /\ writes = <<>>

NextRoutes ==
    \/ Navigate
    \/ GetUserReply
    \/ handleRegister
    \/ handleLogout
    \/ \E k \in 1..MaxCalls :
        \/ RegisterSignUpReply(k)
        \/ RegisterProfileReply(k)
        \/ SignOutReply(k)
        \/ LogoutResume(k)
    \/ handleChange
    \/ \E k \in 1..(MaxCalls + 1) :
        \/ FetchDataPlantsReply(k)
        \/ FetchDataConfigReply(k)
        \/ UpdateConfigReply(k)
    \/ SelectorFetchPlants
    \/ SelectorSelectPlants
    \/ SelectorSave
    \/ UpsertReply
    \/ getSelectedPlantData
    \/ \E k \in 1..MaxFetches :
        \/ FetchConfigReply(k)
        \/ FetchPlantReply(k)
        \/ FetchMultiplantReply(k)
        \/ FetchSensorReply(k)
        \/ FetchThrows(k)
    \/ handlePageChange
    \/ handleSelectRow
    \/ handleSelectAllOnPage
    \/ handleDeleteSelected
    \/ \E k \in 1..MaxDeletes :
        \/ DeleteArrives(k)
        \/ DeleteSensorReply(k)
        \/ DeleteSelectedReply(k)
        \/ DeleteSelectedFails(k)

SpecRoutes == InitRoutes /\ [][NextRoutes]_vars

\* the raw-data view of a signed-in user, mounted with the first
\* getSelectedPlantData call of its effect in flight, over one reading more
\* than a page holds of the Lettuce profile; that profile or the Multiplant
\* profile is selected
InitRawData ==
    /\ DispatcherInit /\ botInit
    /\ webhook = "none"
    /\ authUser = 2 /\ userRole = "user"
    /\ authCalls = <<>>
    /\ issued = 0
    /\ route = "/raw-data"
    /\ guard = "ready"
    /\ SelectIdle
    /\ chartData = <<>>
    /\ currentPage = 1
    /\ selectedRows = <<>>
    /\ plantName = ""
    /\ fetches = <<Fetch("", "config", NULL)>>
    /\ deleting = <<>>
    /\ NotificationIdle
    /\ Tables
    /\ system_config \in [selected_plant_id : {1, 2}]
    /\ sensor_data = StoredReadings(MaxRows)
    /\ ResolverIdle
    /\ auth_users = <<>>
    /\ profiles = <<>>
    /\ requests = <<>>
    /\ writes = <<>>

NextRawData ==
    \/ getSelectedPlantData
    \/ \E k \in 1..MaxFetches :
        \/ FetchConfigReply(k)
        \/ FetchPlantReply(k)
        \/ FetchMultiplantReply(k)
        \/ FetchSensorReply(k)
        \/ FetchThrows(k)
    \/ handlePageChange
    \/ handleSelectRow
    \/ handleSelectAllOnPage
    \/ handleDeleteSelected
    \/ \E k \in 1..MaxDeletes :
        \/ DeleteArrives(k)
        \/ DeleteSensorReply(k)
        \/ DeleteSelectedReply(k)
        \/ DeleteSelectedFails(k)

SpecRawData == InitRawData /\ [][NextRawData]_vars

\* the notification list of a signed-in user on the dashboard
InitNotifications ==
    /\ DispatcherInit /\ botInit
    /\ webhook = "none"
    /\ authUser = 2 /\ userRole = "user"
    /\ authCalls = <<>>
    /\ issued = 0
    /\ route = "/dashboard"
    /\ guard = "ready"
    /\ SelectIdle
    /\ TableViewIdle
    /\ NotificationIdle
    /\ Tables
    /\ system_config = [selected_plant_id |-> 1]
    /\ ResolverIdle
    /\ CrudIdle

NextNotifications ==
    \/ OnPumpStatus
    \/ Tick
    \/ removeNotification
    \/ clearAllNotifications

SpecNotifications == InitNotifications /\ [][NextNotifications]_vars

-----------------------------------------------------------------------------
(* Properties of the alert dispatcher *)

Events == 1..Len(handlers)

\* the bot.sendMessage calls issued for event i
CallsFor(i) == {k \in 1..Len(calls) : calls[k].ev = i}

Pumped(row) == row.pump1 \/ row.pump2 \/ row.pump3 \/ row.pump4

\* the id of the event handled immediately before event i (NULL: none)
PrevId(i) == IF i = 1 THEN NULL ELSE handlers[i - 1].row.id

RepeatsPrev(i) == handlers[i].row.id = PrevId(i)

Done(i) == handlers[i].pc = "done"

FeedIds == [i \in Events |-> handlers[i].row.id]

\* C1 as stated: an event repeating the preceding id sends nothing, and every
\* event with another id and a pump flag set has sent its message once its
\* handler is done.
C1_Original ==
    \A i \in Events :
        /\ RepeatsPrev(i) => CallsFor(i) = {}
        /\ (~RepeatsPrev(i) /\ Pumped(handlers[i].row) /\ Done(i))
                => Cardinality(CallsFor(i)) = 1

\* the alert of event i was dropped: its system_config lookup answered with
\* an error or without a selected plant id (server.js:99-102), one of its
\* lookups threw, or bot is undefined (both logged by the catch block,
\* server.js:150-152)
Suppressed(i) ==
    handlers[i].result \in {"noconfig", "lookup threw", "bot undefined"}

\* C1 (amended): an event repeating the id of the preceding handled event
\* sends no message; an event with another id and a pump flag set makes one
\* bot.sendMessage call, and none when its system_config lookup answered
\* with an error or without a selected plant id, one of its lookups threw or
\* the bot is undefined; for ids [1,2,2,3] the second 2 has no message and
\* the events 1, 2 and 4 have one each, less those dropped in this way:
\* three messages when none was.
C1_DuplicateSuppression ==
    /\ \A i \in Events :
        /\ RepeatsPrev(i) => CallsFor(i) = {} /\ handlers[i].result = "duplicate"
        /\ (~RepeatsPrev(i) /\ Pumped(handlers[i].row) /\ Done(i))
                => Cardinality(CallsFor(i)) = (IF Suppressed(i) THEN 0 ELSE 1)
    /\ (FeedIds = <<1, 2, 2, 3>> /\ \A i \in Events : Done(i))
            => LET alerted == {i \in {1, 2, 4} : ~Suppressed(i)} IN
               /\ {calls[k].ev : k \in 1..Len(calls)} = alerted
               /\ Len(calls) = Cardinality(alerted)

\* C1 witness: the feed [1,2,2,3], every reading with pump1, three messages
C1_Witness ==
    /\ FeedIds = <<1, 2, 2, 3>>
    /\ \A i \in Events : Done(i) /\ handlers[i].row.pump1
    /\ handlers[3].result = "duplicate"
    /\ Len(calls) = 3
    /\ \A k \in 1..3 : calls[k].status = "ok"

\* C2 as stated: no reading id has more than one message, and every reading
\* id delivered with a pump flag set has one once the handlers of its
\* events are done.
C2_Original ==
    /\ \A id \in ReadingIds :
        Cardinality({k \in 1..Len(calls) : handlers[calls[k].ev].row.id = id}) <= 1
    /\ \A i \in Events :
        (\A j \in Events :
            handlers[j].row.id = handlers[i].row.id
                => Done(j) /\ Pumped(handlers[j].row))
            => \E k \in 1..Len(calls) : handlers[calls[k].ev].row.id = handlers[i].row.id

\* C2 (amended): at most one message is sent per handled event, not per
\* reading id: none for an event that repeats the id of the preceding event
\* or has no pump flag set, and one for every other event, whether or not
\* its id was handled and alerted earlier, except that none is sent when
\* the system_config lookup answered with an error or without a selected
\* plant id, a lookup threw or the bot is undefined.
C2_AtMostOncePerEvent ==
    \A i \in Events :
        /\ Cardinality(CallsFor(i)) <= 1
        /\ CallsFor(i) # {} => Pumped(handlers[i].row) /\ ~RepeatsPrev(i)
        /\ (Done(i) /\ Pumped(handlers[i].row) /\ ~RepeatsPrev(i))
                => (CallsFor(i) = {} <=> Suppressed(i))
        /\ (~Done(i)) => (CallsFor(i) # {} <=> handlers[i].pc = "send")

\* C2 witness: a reading id delivered again after another id is alerted again
C2_Witness ==
    \E i, j \in Events :
        /\ i + 1 < j
        /\ handlers[i].row.id = handlers[j].row.id
        /\ handlers[i].result = "sent" /\ handlers[j].result = "sent"
        /\ Cardinality(CallsFor(i)) = 1 /\ Cardinality(CallsFor(j)) = 1

\* C3: a reading with no pump flag set never has a message sent, and its
\* handler returns in its first segment, before any datastore query.
C3_NoPumpNoMessage ==
    \A i \in Events :
        (~Pumped(handlers[i].row))
            => /\ CallsFor(i) = {}
               /\ Done(i)
               /\ handlers[i].result \in {"duplicate", "nopump"}

\* C3 witness: a no-pump reading with a new id was discarded while another
\* handler is suspended
C3_Witness ==
    \E i \in Events :
        /\ ~Pumped(handlers[i].row)
        /\ handlers[i].result = "nopump"
        /\ handlers[i].row.ph = 14 /\ handlers[i].row.ec = 9
        /\ lastSeenId = handlers[i].row.id
        /\ InFlight # {}

\* C4 as stated: every handled reading that is no duplicate and has a pump
\* flag set has one bot.sendMessage call, whatever the outcome of the three
\* lookups.
C4_Original ==
    \A i \in Events :
        (Done(i) /\ Pumped(handlers[i].row) /\ handlers[i].result # "duplicate")
            => Cardinality(CallsFor(i)) = 1

\* C4 (amended): a handled reading that is no duplicate and has a pump flag
\* set leads to one bot.sendMessage call whatever the plant_profiles and
\* multiplant_profile lookups answer: once the system_config lookup has
\* returned a selected plant id the handler goes on to the call unless a
\* lookup throws or the bot is undefined. The alert is dropped, with no
\* call, when the system_config lookup answers with an error or without a
\* selected plant id, when a lookup throws, and when the bot is undefined
\* (then no call is ever made).
C4_AlertDespiteNameLookup ==
    /\ [](/\ \A i \in Events :
            /\ (Done(i) /\ Pumped(handlers[i].row)
                /\ handlers[i].result # "duplicate")
                    => Cardinality(CallsFor(i)) = (IF Suppressed(i) THEN 0 ELSE 1)
            /\ handlers[i].pc = "send" => Cardinality(CallsFor(i)) = 1
            /\ handlers[i].result = "bot undefined" => ~botInit
          /\ ~botInit => calls = <<>>)
    /\ [][\A i \in Events :
            (/\ handlers[i].pc \in {"plant", "multiplant"}
             /\ handlers'[i].pc \notin {"plant", "multiplant"})
                => IF handlers'[i].pc = "send"
                   THEN botInit /\ Cardinality(CallsFor(i)') = 1
                   ELSE handlers'[i].result = "lookup threw"
                        \/ (~botInit /\ handlers'[i].result = "bot undefined")]_vars

\* C4 witness: both name lookups failed and the alert was sent
C4_Witness ==
    \E i \in Events :
        /\ handlers[i].pc = "send"
        /\ handlers[i].plant = "error" /\ handlers[i].mp = "error"
        /\ \E k \in CallsFor(i) : calls[k].text[1].plant = UnknownPlant

\* the name the alert of handler h must carry
ExpectedName(h) ==
    IF h.plant = "row" THEN plant_profiles[h.plantId].name
    ELSE IF h.mp = "row" THEN multiplant_profile[h.plantId].name
    ELSE UnknownPlant

\* C5: the name in an alert is that of the plant_profiles row with the
\* selected id when that lookup succeeds, else that of the multiplant_profile
\* row with that id when that lookup succeeds, else "Unknown Plant"; the
\* multiplant_profile table is queried only after the plant_profiles lookup
\* returned an error.
C5_PlantName ==
    \A i \in Events :
        /\ handlers[i].pc \in {"plant", "multiplant", "send"}
            => handlers[i].plantId = system_config.selected_plant_id
        /\ handlers[i].pc = "multiplant"
            => handlers[i].plant = "error" /\ handlers[i].mp = "none"
        /\ handlers[i].mp # "none" => handlers[i].plant = "error"
        /\ handlers[i].pc = "send"
            => \A k \in CallsFor(i) :
                \A n \in 1..Len(calls[k].text) :
                    calls[k].text[n].plant = ExpectedName(handlers[i])

\* C5 witness: the selected id is the multiplant_profile row's and the alert
\* carries its name
C5_Witness ==
    \E i \in Events :
        /\ handlers[i].pc = "send"
        /\ handlers[i].plant = "error" /\ handlers[i].mp = "row"
        /\ \E k \in CallsFor(i) : calls[k].text[1].plant = "Multiplant"

\* the pumps whose flag is set, in the order pump1..pump4
ActivePumps(row) ==
    LET flag == <<row.pump1, row.pump2, row.pump3, row.pump4>>
        F[k \in 0..4] ==
            IF k = 0 THEN <<>>
            ELSE IF flag[k] THEN Append(F[k - 1], k) ELSE F[k - 1]
    IN F[4]

\* C6: one message per processed reading, made of one paragraph per true
\* flag in the order pump1..pump4; the pump1 and pump2 paragraphs carry ec,
\* the pump3 and pump4 paragraphs carry ph, all carry one plant name.
C6_CompositeMessage ==
    /\ \A i \in Events : Cardinality(CallsFor(i)) <= 1
    /\ \A i \in Events : handlers[i].pc = "send" => Cardinality(CallsFor(i)) = 1
    /\ \A k \in 1..Len(calls) :
        LET row == handlers[calls[k].ev].row
            text == calls[k].text
        IN /\ [n \in 1..Len(text) |-> text[n].pump] = ActivePumps(row)
           /\ \A n \in 1..Len(text) :
                /\ text[n].pump \in {1, 2}
                    => text[n].label = "EC" /\ text[n].value = row.ec
                /\ text[n].pump \in {3, 4}
                    => text[n].label = "pH" /\ text[n].value = row.ph
                /\ text[n].plant = text[1].plant

\* C6 witness: all four flags set, one message of four paragraphs
C6_Witness ==
    \E k \in 1..Len(calls) :
        /\ Len(calls[k].text) = 4
        /\ calls[k].text[2].value # calls[k].text[3].value
        /\ calls[k].status = "ok"

\* C7: a failed bot.sendMessage is caught; the event keeps its single call,
\* its handler is done, lastSeenId is the event's id until another event is
\* handled, and a following event with the same id is discarded.
C7_SendFailureNoRetry ==
    /\ ~crashed
    /\ \A k \in 1..Len(calls) :
        calls[k].status = "failed" =>
            LET i == calls[k].ev IN
            /\ Done(i) /\ handlers[i].result = "send rejected"
            /\ CallsFor(i) = {k}
            /\ i = Len(handlers) => lastSeenId = handlers[i].row.id
            /\ (i < Len(handlers) /\ handlers[i + 1].row.id = handlers[i].row.id)
                => handlers[i + 1].result = "duplicate" /\ CallsFor(i + 1) = {}

\* C7 witness: a send failed and the same id was delivered again
C7_Witness ==
    \E k \in 1..Len(calls) :
        LET i == calls[k].ev IN
        /\ calls[k].status = "failed"
        /\ i < Len(handlers)
        /\ handlers[i + 1].row.id = handlers[i].row.id
        /\ Pumped(handlers[i + 1].row)

Failures == {"noconfig", "lookup threw", "bot undefined", "send rejected"}

\* C8: no error leaves sendSensorAlerts, and after an event that failed the
\* next event with another id and a pump flag set, whose own calls succeed,
\* has its message sent.
C8_FailureContained ==
    /\ ~crashed
    /\ \A i \in Events : handlers[i].result # "escaped"
    /\ \A i \in Events :
        (/\ i > 1
         /\ handlers[i - 1].result \in Failures
         /\ ~RepeatsPrev(i) /\ Pumped(handlers[i].row)
         /\ Done(i) /\ handlers[i].result \notin Failures)
            => /\ handlers[i].result = "sent"
               /\ \E k \in CallsFor(i) : calls[k].status = "ok"

\* C8 witness: a lookup threw for one event and the next event was alerted
C8_Witness ==
    \E i \in Events :
        /\ i > 1
        /\ handlers[i - 1].result = "lookup threw"
        /\ handlers[i].result = "sent"
        /\ \E k \in CallsFor(i) : calls[k].status = "ok"

\* C9 as stated: the bot.sendMessage calls are issued in the order in which
\* the events were delivered.
C9_SendOrder ==
    \A k, l \in 1..Len(calls) : k < l => calls[k].ev < calls[l].ev

-----------------------------------------------------------------------------
(* Properties of the range resolver *)

\* the loaded profiles that are selected
SelectedPlants ==
    LET Selected(p) == p.id \in selectedPlantIds IN SelectSeq(plants, Selected)

SelectedSet == {SelectedPlants[n] : n \in 1..Len(SelectedPlants)}

\* every two selected profiles (and so each with itself) share a pH value
\* and an EC value
AllOverlap ==
    \A p, q \in SelectedSet :
        p.ph_min <= q.ph_max /\ p.ec_min <= q.ec_max

\* C10: for a selection of at least 2 profiles whose pH intervals all overlap
\* and whose EC intervals all overlap, the range has phMin = max ph_min,
\* phMax = min ph_max and an EC pair outside of which no selected profile
\* lies; A(5.5-6.5, 1.0-2.0) and B(6.0-7.0, 1.5-2.5) give 6.0-6.5, 1.5-2.0.
C10_OverlapOfCompatible ==
    /\ (Len(SelectedPlants) >= 2 /\ AllOverlap)
        => /\ calculatedRange # NullRange
           /\ calculatedRange.phMin = Greatest({p.ph_min : p \in SelectedSet})
           /\ calculatedRange.phMax = Least({p.ph_max : p \in SelectedSet})
           /\ \A p \in SelectedSet :
                ~(p.ec_min > calculatedRange.ecMax \/ p.ec_max < calculatedRange.ecMin)
    /\ (/\ Len(SelectedPlants) = 2
        /\ \E a, b \in SelectedSet :
            /\ <<a.ph_min, a.ph_max, a.ec_min, a.ec_max>> = <<55, 65, 10, 20>>
            /\ <<b.ph_min, b.ph_max, b.ec_min, b.ec_max>> = <<60, 70, 15, 25>>)
        => calculatedRange = [phMin |-> 60, phMax |-> 65, ecMin |-> 15, ecMax |-> 20]

\* C10 witness: three selected profiles that pairwise overlap, among them
\* the profiles A and B of the example, and their range
C10_Witness ==
    /\ Len(SelectedPlants) = 3
    /\ AllOverlap
    /\ \E a, b \in SelectedSet :
        /\ <<a.ph_min, a.ph_max, a.ec_min, a.ec_max>> = <<55, 65, 10, 20>>
        /\ <<b.ph_min, b.ph_max, b.ec_min, b.ec_max>> = <<60, 70, 15, 25>>
    /\ calculatedRange = [phMin |-> 60, phMax |-> 65, ecMin |-> 20, ecMax |-> 20]


\* the pH and the EC intersection of the selected profiles: greatest minimum
\* and least maximum
MaxPhMin == Greatest({p.ph_min : p \in SelectedSet})
MinPhMax == Least({p.ph_max : p \in SelectedSet})
MaxEcMin == Greatest({p.ec_min : p \in SelectedSet})
MinEcMax == Least({p.ec_max : p \in SelectedSet})

\* C11: for a selection of at least 2 profiles, max(ph_min) > min(ph_max)
\* gives the null result whatever the EC intervals are; a range is returned
\* only when min(ph_max) >= max(ph_min); and pH intervals that only touch
\* count as overlapping: with the EC intervals overlapping the range is
\* returned, with phMin = phMax.
C11_PhFeasibility ==
    Len(SelectedPlants) >= 2 =>
        /\ MaxPhMin > MinPhMax => calculatedRange = NullRange
        /\ calculatedRange # NullRange => MinPhMax >= MaxPhMin
        /\ (MaxPhMin = MinPhMax /\ MaxEcMin <= MinEcMax)
            => /\ calculatedRange # NullRange
               /\ calculatedRange.phMin = MaxPhMin
               /\ calculatedRange.phMax = MaxPhMin

\* C11 witness: 5.0-5.5 and 5.5-6.5 selected, the range has pH 5.5-5.5
C11_Witness ==
    /\ Len(SelectedPlants) = 2
    /\ {<<p.ph_min, p.ph_max>> : p \in SelectedSet} = {<<50, 55>>, <<55, 65>>}
    /\ calculatedRange # NullRange
    /\ calculatedRange.phMin = 55 /\ calculatedRange.phMax = 55

\* C12: for a selection of at least 2 profiles a profile with
\* ec_min > ecMax or ec_max < ecMin exists exactly when
\* max(ec_min) > min(ec_max); a range is returned iff
\* max(ph_min) <= min(ph_max) and max(ec_min) <= min(ec_max), and it is
\* (max ph_min, min ph_max, max ec_min, min ec_max).
C12_EcIntersection ==
    Len(SelectedPlants) >= 2 =>
        /\ (Len(Outliers(SelectedPlants, EcMin(SelectedPlants), EcMax(SelectedPlants))) > 0)
            <=> (MaxEcMin > MinEcMax)
        /\ EcMin(SelectedPlants) = MaxEcMin
        /\ EcMax(SelectedPlants) = MinEcMax
        /\ (calculatedRange # NullRange)
            <=> (MaxPhMin <= MinPhMax /\ MaxEcMin <= MinEcMax)
        /\ calculatedRange # NullRange
            => calculatedRange = [phMin |-> MaxPhMin, phMax |-> MinPhMax,
                                  ecMin |-> MaxEcMin, ecMax |-> MinEcMax]

\* C12 witness: three profiles, two with the same ec_min, and EC intervals
\* that only touch: 1.0-2.0, 2.0-3.0, 2.0-3.0 give the EC pair 2.0-2.0
C12_Witness ==
    /\ Len(SelectedPlants) = 3
    /\ {<<p.ec_min, p.ec_max>> : p \in SelectedSet} = {<<10, 20>>, <<20, 30>>}
    /\ calculatedRange # NullRange
    /\ calculatedRange.ecMin = 20 /\ calculatedRange.ecMax = 20

-----------------------------------------------------------------------------
(* Properties of the Multiplant save *)

LoadedIds == {plants[n].id : n \in 1..Len(plants)}

\* the multiplant_profile rows named "Multiplant"
MultiplantIds ==
    {id \in DOMAIN multiplant_profile : multiplant_profile[id].name = "Multiplant"}

\* the upserts that completed with the row stored
OkSaves == {k \in 1..Len(upserts) : upserts[k].status = "ok"}

\* C13: with fewer than 2 of the loaded profiles selected the result is null,
\* for the current selection and for every set of ids of which fewer than 2
\* match a loaded profile, also after a selection that had a range; no range
\* is then shown and the Save button is disabled.
C13_FewerThanTwo ==
    /\ Len(SelectedPlants) < 2 => calculatedRange = NullRange /\ SaveDisabled
    /\ \A ids \in SUBSET (1..(Len(SavePlants) + 1)) :
        Cardinality(ids \cap LoadedIds) < 2
            => calculateOverlap(plants, ids) = NullRange

\* C13 witness: a range was saved, then the selection shrank to one profile
C13_Witness ==
    /\ OkSaves # {}
    /\ Cardinality(selectedPlantIds) = 1
    /\ Len(SelectedPlants) = 1
    /\ calculatedRange = NullRange

\* no upsert is in flight
NoPending == \A k \in 1..Len(upserts) : upserts[k].status # "pending"

\* C14 as stated: while the selection is infeasible (two or more profiles
\* selected, no range) no upsert is issued and the multiplant_profile table
\* keeps its rows.
C14_Original ==
    [][(Len(SelectedPlants) >= 2 /\ calculatedRange = NullRange)
            => /\ Len(upserts') = Len(upserts)
               /\ multiplant_profile' = multiplant_profile]_vars

\* C14 (amended): while calculatedRange is null no upsert is issued, an
\* upsert carries the range calculated when it was issued, and with no
\* upsert in flight the multiplant_profile table keeps its rows; the table
\* changes only when an upsert in flight completes, also after the
\* selection has become infeasible, and then stores the row of that upsert;
\* the selection A(pH 5.0-5.5), B(pH 6.0-6.5) has the null result.
C14_NoWriteWhenInfeasible ==
    /\ [](selectedPlantIds = {3, 4} /\ plants # <<>> => calculatedRange = NullRange)
    /\ [][/\ calculatedRange = NullRange => Len(upserts') = Len(upserts)
          /\ Len(upserts') > Len(upserts)
                => upserts'[Len(upserts')].row = MultiplantRow(calculatedRange)
          /\ (calculatedRange = NullRange /\ NoPending)
                => multiplant_profile' = multiplant_profile
          /\ multiplant_profile' # multiplant_profile
                => /\ upserts[Len(upserts)].status = "pending"
                   /\ upserts'[Len(upserts)].status = "ok"
                   /\ \E id \in DOMAIN multiplant_profile' :
                        multiplant_profile'[id] = upserts[Len(upserts)].row
         ]_vars

\* C14 witness: a range was saved, then A(pH 5.0-5.5) and B(pH 6.0-6.5) were
\* selected, and the stored row still has the saved values
C14_Witness ==
    /\ upserts # <<>> /\ upserts[Len(upserts)].status = "ok"
    /\ selectedPlantIds = {3, 4}
    /\ {<<p.ph_min, p.ph_max>> : p \in SelectedSet} = {<<50, 55>>, <<60, 65>>}
    /\ calculatedRange = NullRange
    /\ multiplant_profile = <<upserts[Len(upserts)].row>>

\* C15: multiplant_profile has at most one row named "Multiplant"; once a
\* save completed, that row holds the values of the last completed save; and
\* a save of the values the row already holds leaves the table as it is.
C15_SaveIdempotent ==
    /\ [](/\ Cardinality(MultiplantIds) <= 1
          /\ OkSaves # {}
                => \E id \in MultiplantIds :
                    multiplant_profile[id] = upserts[Greatest(OkSaves)].row)
    /\ [][(/\ OkSaves # {}
           /\ upserts[Len(upserts)].status = "pending"
           /\ upserts'[Len(upserts)].status = "ok"
           /\ upserts[Len(upserts)].row = upserts[Greatest(OkSaves)].row)
                => multiplant_profile' = multiplant_profile
         ]_vars

\* C15 witness: the same range saved twice over a row stored earlier, then
\* another range saved: one row, with the last values
C15_Witness ==
    /\ Len(upserts) = 3
    /\ \A k \in 1..3 : upserts[k].status = "ok"
    /\ upserts[1].row = upserts[2].row
    /\ upserts[3].row # upserts[2].row
    /\ DOMAIN multiplant_profile = {1}
    /\ multiplant_profile[1] = upserts[3].row
    /\ multiplant_profile[1] # PriorMultiplant

-----------------------------------------------------------------------------
(* Properties of the CRUD proxy *)

\* a step in which the selector's pending upsert completes with the row stored
UpsertCompletes ==
    /\ upserts # <<>>
    /\ upserts[Len(upserts)].status = "pending"
    /\ upserts'[Len(upserts)].status = "ok"

\* C16 as stated: the multiplant_profile table changes only when an upsert of
\* the selector completes; no request to /api/plants changes a row of it.
C16_MultiplantOnlyBySave ==
    [][multiplant_profile' # multiplant_profile => UpsertCompletes]_vars

\* the write calls request i issued
WritesOf(i) == {k \in 1..Len(writes) : writes[k].req = i}

SensorRequests == {i \in 1..Len(requests) : requests[i].op = "DELETE /api/sensor-data"}

\* the set S of a request's id list
IdSet(ids) == {ids.elems[n] : n \in 1..Len(ids.elems)}

\* C17: a DELETE /api/sensor-data whose ids is missing, no array or an empty
\* array is answered with status 400 and an error body and issues no write
\* call; sensor_data changes only when the delete of a request with a
\* non-empty array completes.
C17_DeleteValidation ==
    /\ [](\A i \in SensorRequests :
            (requests[i].body.kind # "array" \/ requests[i].body.elems = <<>>)
                => /\ requests[i].status = 400
                   /\ requests[i].reply = "error"
                   /\ WritesOf(i) = {})
    /\ [][sensor_data' # sensor_data
            => \E i \in SensorRequests :
                /\ requests[i].pc = "delete" /\ requests'[i].pc = "done"
                /\ requests[i].body.kind = "array" /\ requests[i].body.elems # <<>>
         ]_vars

\* C17 witness: a request with an empty array and one with no ids field were
\* both refused, and the three readings are stored
C17_Witness ==
    /\ Len(requests) = 2
    /\ requests[1].body = Ids("array", <<>>) /\ requests[1].status = 400
    /\ requests[2].body = Ids("undefined", <<>>) /\ requests[2].status = 400
    /\ writes = <<>>
    /\ sensor_data = SensorRows

\* C18: when the delete of a request with id list S succeeds, the response is
\* a success, the rows with an id in S are gone, every other row is stored
\* unchanged and no other table changes; when it errors the response has
\* status 500 and an error body.
C18_DeleteExactly ==
    /\ [](\A i \in SensorRequests :
            /\ requests[i].status = 500 => requests[i].reply = "error"
            /\ requests[i].reply = "success" => requests[i].status = 200)
    /\ [][\A i \in SensorRequests :
            (requests[i].pc = "delete" /\ requests'[i].pc = "done")
                => IF requests'[i].reply = "success"
                   THEN /\ DOMAIN sensor_data' = DOMAIN sensor_data \ IdSet(requests[i].body)
                        /\ \A id \in DOMAIN sensor_data' : sensor_data'[id] = sensor_data[id]
                        /\ UNCHANGED <<tableVars, auth_users, profiles>>
                   ELSE /\ requests'[i].status = 500
                        /\ UNCHANGED <<sensor_data, tableVars, auth_users, profiles>>
         ]_vars

\* C18 witness: ids [1, 4] deleted reading 1 and nothing else, after a delete
\* of ids [2, 3] had failed
C18_Witness ==
    /\ Len(requests) = 2
    /\ requests[1].body.elems = <<2, 3>> /\ requests[1].status = 500
    /\ requests[2].body.elems = <<1, 4>> /\ requests[2].reply = "success"
    /\ DOMAIN sensor_data = {2, 3}
    /\ sensor_data[2] = SensorRows[2] /\ sensor_data[3] = SensorRows[3]

\* the create and update requests
CreateOrUpdate ==
    {i \in 1..Len(requests) :
        requests[i].op \in {"POST /api/users", "PUT /api/users/:id",
                            "POST /api/plants", "PUT /api/plants/:id"}}

\* the body of request i lacks a required field: email, password or role of
\* a user, the name of a plant profile
LacksRequired(i) ==
    IF requests[i].op \in {"POST /api/users", "PUT /api/users/:id"}
    THEN \/ requests[i].body.email = NoData
         \/ requests[i].body.password = NoData
         \/ requests[i].body.role = NoData
    ELSE requests[i].body.name = NoData

\* C19 as stated: a create or update request whose body lacks a required
\* field issues no write call, and its response is an error.
C19_RejectedBeforeWrite ==
    \A i \in CreateOrUpdate :
        LacksRequired(i)
            => /\ WritesOf(i) = {}
               /\ requests[i].pc = "done" => requests[i].reply = "error"

UserRequests ==
    {i \in 1..Len(requests) :
        requests[i].op \in {"POST /api/users", "PUT /api/users/:id",
                            "DELETE /api/users/:id"}}

\* the calls request i issued to the identity service and on profiles
AuthWrites(i) == {k \in WritesOf(i) : writes[k].table = "auth"}
ProfileWrites(i) == {k \in WritesOf(i) : writes[k].table = "profiles"}

\* C20: a user create, update or delete issues its identity-service call
\* first and its profiles write after it, only when the identity call
\* succeeded; when the identity call fails the response is an error and
\* neither store changes; when the profiles write fails the response is an
\* error with status 400 and the identity change made before stays.
C20_IdentityThenProfile ==
    /\ [](\A i \in UserRequests :
            /\ Cardinality(AuthWrites(i)) = 1
            /\ Cardinality(ProfileWrites(i)) <= 1
            /\ \A k \in AuthWrites(i), l \in ProfileWrites(i) : k < l
            /\ requests[i].pc = "auth" => ProfileWrites(i) = {}
            /\ (requests[i].pc = "done" /\ ProfileWrites(i) = {})
                    => requests[i].status = 400 /\ requests[i].reply = "error")
    /\ [][\A i \in UserRequests :
            /\ (requests[i].pc = "auth" /\ requests'[i].pc = "done")
                    => /\ requests'[i].status = 400
                       /\ UNCHANGED <<auth_users, profiles, writes>>
            /\ (requests[i].pc = "auth" /\ requests'[i].pc = "profile")
                    => /\ profiles' = profiles
                       /\ CASE requests[i].op = "POST /api/users" ->
                                    requests'[i].id \in DOMAIN auth_users' \ DOMAIN auth_users
                            [] requests[i].op = "PUT /api/users/:id" ->
                                    auth_users'[requests[i].id] =
                                        UpdatedUser(auth_users[requests[i].id], requests[i].body)
                            [] requests[i].op = "DELETE /api/users/:id" ->
                                    /\ requests[i].id \in DOMAIN auth_users
                                    /\ requests[i].id \notin DOMAIN auth_users'
            /\ (requests[i].pc = "profile" /\ requests'[i].pc = "done")
                    => /\ auth_users' = auth_users
                       /\ requests'[i].reply = "error"
                            => requests'[i].status = 400 /\ profiles' = profiles
         ]_vars

\* C20 witness: DELETE /api/users/1 deleted the identity, its profiles delete
\* failed: the response is an error, and GET /api/users still lists user 1
C20_Witness ==
    \E i \in UserRequests :
        /\ requests[i].op = "DELETE /api/users/:id" /\ requests[i].id = 1
        /\ requests[i].pc = "done" /\ requests[i].status = 400
        /\ ProfileWrites(i) # {}
        /\ 1 \notin DOMAIN auth_users
        /\ \E u \in GetUsers : u.id = 1 /\ u.email = "admin@farm"

\* a datastore call of request i returned an error: the handler of
\* PUT /api/plants/:id issues its multiplant_profile update only after the
\* plant_profiles update returned one; every other handler answers with an
\* error at once
CallErrored(i) ==
    \/ requests[i].reply = "error" /\ WritesOf(i) # {}
    \/ \E k \in WritesOf(i) : writes[k].table = "multiplant_profile"

\* C21 as stated: every request is answered once, with a success (status
\* 200) when all its datastore calls succeeded and else with an error body
\* and status 400 or 500; a response is never replaced by another, and no
\* request of which a datastore call returned an error is answered with a
\* success.
C21_OneResponse ==
    /\ [](\A i \in 1..Len(requests) :
            /\ requests[i].pc = "done" <=> requests[i].status # 0
            /\ requests[i].pc = "done" => requests[i].reply \in {"success", "error"}
            /\ requests[i].reply = "success" <=> requests[i].status = 200
            /\ requests[i].reply = "error" <=> requests[i].status \in {400, 500}
            /\ CallErrored(i) => requests[i].reply # "success")
    /\ [][\A i \in 1..Len(requests) :
            requests[i].pc = "done" => requests'[i] = requests[i]]_vars

\* the bounds of a stored profile are in order
WellFormed(row) == row.ph_min <= row.ph_max /\ row.ec_min <= row.ec_max

\* C22 as stated: every row of plant_profiles and of multiplant_profile has
\* ph_min <= ph_max and ec_min <= ec_max.
C22_BoundsInOrder ==
    /\ \A id \in DOMAIN plant_profiles : WellFormed(plant_profiles[id])
    /\ \A id \in DOMAIN multiplant_profile : WellFormed(multiplant_profile[id])

-----------------------------------------------------------------------------
(* Properties of lastSeenId *)

\* C25: the duplicate check and the assignment of lastSeenId are one
\* run-to-completion segment: an event delivered right after an event with
\* the same id is discarded in the step that delivers it (its handler
\* returns "duplicate" with no call issued and lastSeenId unchanged),
\* whatever the earlier handlers are awaiting, and the pair has at most one
\* bot.sendMessage call in every state.
C25_BackToBackDiscarded ==
    /\ [](\A i \in Events :
            (i > 1 /\ handlers[i].row.id = handlers[i - 1].row.id)
                => /\ handlers[i].pc = "done"
                   /\ handlers[i].result = "duplicate"
                   /\ CallsFor(i) = {}
                   /\ Cardinality(CallsFor(i - 1) \cup CallsFor(i)) <= 1)
    /\ [][(/\ Len(handlers') = Len(handlers) + 1
           /\ handlers # <<>>
           /\ handlers'[Len(handlers')].row.id = handlers[Len(handlers)].row.id)
            => /\ handlers'[Len(handlers')].result = "duplicate"
               /\ lastSeenId' = lastSeenId
               /\ calls' = calls]_vars

\* C25 witness: the second event of a pair with one id was discarded while
\* the first handler awaits its bot.sendMessage call
C25_Witness ==
    \E i \in Events :
        /\ i > 1 /\ handlers[i].row.id = handlers[i - 1].row.id
        /\ handlers[i].result = "duplicate"
        /\ handlers[i - 1].pc = "send"
        /\ \E k \in CallsFor(i - 1) : calls[k].status = "pending"

\* C26: lastSeenId is null until the first event is handled and afterwards
\* is the id of the most recently handled reading, whatever that handler
\* did next (no pump flag, a failed lookup, a failed send); it is never
\* null again, only the delivery of an event changes it, and the outcome
\* of the synchronous prefix of a handler is a function of the row and
\* lastSeenId alone.
C26_LastSeenId ==
    /\ [](/\ handlers = <<>> => lastSeenId = NULL
          /\ handlers # <<>> => /\ lastSeenId = handlers[Len(handlers)].row.id
                                /\ lastSeenId # NULL)
    /\ [][/\ lastSeenId # NULL => lastSeenId' # NULL
          /\ Len(handlers') = Len(handlers) => lastSeenId' = lastSeenId
          /\ Len(handlers') = Len(handlers) + 1 =>
                LET h == handlers'[Len(handlers')] IN
                /\ h.result = "duplicate" <=> h.row.id = lastSeenId
                /\ h.result = "nopump" <=>
                        (h.row.id # lastSeenId /\ ~Pumped(h.row))
                /\ h.pc # "done" <=>
                        (h.row.id # lastSeenId /\ Pumped(h.row))]_vars

\* C26 witness: a reading whose lookup threw, one whose send was rejected
\* and one with no pump flag set were handled in this order, and lastSeenId
\* is the id of the last
C26_Witness ==
    /\ Len(handlers) = 3
    /\ handlers[1].result = "lookup threw"
    /\ handlers[2].result = "send rejected"
    /\ handlers[3].result = "nopump"
    /\ lastSeenId = handlers[3].row.id
    /\ lastSeenId # handlers[2].row.id

-----------------------------------------------------------------------------
(* Compatibility of the resolved range *)

\* C28: when every selected profile has ph_min <= ph_max and
\* ec_min <= ec_max and the resolver yields a range, the range lies inside
\* the pH interval and the EC interval of every selected profile:
\* p.ph_min <= phMin <= phMax <= p.ph_max and
\* p.ec_min <= ecMin <= ecMax <= p.ec_max.
C28_RangeCompatible ==
    (/\ calculatedRange # NullRange
     /\ \A p \in SelectedSet : WellFormed(p))
        => \A p \in SelectedSet :
            /\ p.ph_min <= calculatedRange.phMin
            /\ calculatedRange.phMin <= calculatedRange.phMax
            /\ calculatedRange.phMax <= p.ph_max
            /\ p.ec_min <= calculatedRange.ecMin
            /\ calculatedRange.ecMin <= calculatedRange.ecMax
            /\ calculatedRange.ecMax <= p.ec_max

\* C28 witness: 5.5-6.5/1.0-2.0 and 6.0-7.0/1.5-2.5 are selected and the
\* range 6.0-6.5/1.5-2.0 is strictly inside both
C28_Witness ==
    /\ Len(SelectedPlants) = 2
    /\ {<<p.ph_min, p.ph_max, p.ec_min, p.ec_max>> : p \in SelectedSet}
            = {<<55, 65, 10, 20>>, <<60, 70, 15, 25>>}
    /\ calculatedRange = [phMin |-> 60, phMax |-> 65, ecMin |-> 15, ecMax |-> 20]

-----------------------------------------------------------------------------
(* The selection after a plant is deleted *)

\* the selected id is the id of no plant_profiles and no multiplant_profile row
Dangling ==
    /\ system_config.selected_plant_id # NULL
    /\ system_config.selected_plant_id \notin DOMAIN plant_profiles
    /\ system_config.selected_plant_id \notin DOMAIN multiplant_profile

\* C27: the step in which DELETE /api/plants/:id answers leaves
\* system_config and multiplant_profile as they are and removes from
\* plant_profiles the row with that id and no other (no row on an error);
\* and a handler of a reading with a pump flag set whose multiplant_profile
\* query resolves while the selection dangles, the bot being initialised,
\* issues its bot.sendMessage call, every paragraph of which carries
\* "Unknown Plant".
C27_DanglingSelection ==
    /\ [][\A i \in 1..Len(requests) :
            (/\ requests[i].op = "DELETE /api/plants/:id"
             /\ requests[i].pc # "done" /\ requests'[i].pc = "done")
                => /\ system_config' = system_config
                   /\ multiplant_profile' = multiplant_profile
                   /\ requests'[i].reply = "error" => plant_profiles' = plant_profiles
                   /\ requests'[i].reply = "success" =>
                        /\ DOMAIN plant_profiles' = DOMAIN plant_profiles \ {requests[i].id}
                        /\ \A id \in DOMAIN plant_profiles' :
                                plant_profiles'[id] = plant_profiles[id]]_vars
    /\ [][\A i \in Events :
            (/\ handlers[i].pc = "multiplant" /\ handlers'[i].pc # "multiplant"
             /\ handlers'[i].result # "lookup threw"
             /\ Dangling /\ botInit)
                => /\ handlers'[i].pc = "send"
                   /\ handlers'[i].plant = "error" /\ handlers'[i].mp = "error"
                   /\ Len(calls') = Len(calls) + 1
                   /\ calls'[Len(calls')].ev = i
                   /\ Len(calls'[Len(calls')].text) >= 1
                   /\ \A n \in 1..Len(calls'[Len(calls')].text) :
                        calls'[Len(calls')].text[n].plant = UnknownPlant]_vars

\* C27 witness: DELETE /api/plants/1 answered success while row 1 was
\* selected, the selection still is 1, and a reading delivered afterwards
\* had its alert sent with the name "Unknown Plant"
C27_Witness ==
    /\ \E i \in 1..Len(requests) :
        /\ requests[i].op = "DELETE /api/plants/:id" /\ requests[i].id = 1
        /\ requests[i].reply = "success"
    /\ system_config.selected_plant_id = 1
    /\ Dangling
    /\ \E k \in 1..Len(calls) :
        /\ calls[k].status = "ok"
        /\ calls[k].text[1].plant = UnknownPlant
        /\ handlers[calls[k].ev].result = "sent"

-----------------------------------------------------------------------------
(* Properties of the webhook registration *)

WebhookRequests ==
    {i \in 1..Len(requests) : requests[i].op = "POST /api/set-webhook"}

\* C24: POST /api/set-webhook answers success only in a step that leaves
\* the webhook set; it answers 500 with an error body when the bot is not
\* initialised, when bot.deleteWebHook failed and when bot.setWebHook
\* failed; and every bot.setWebHook call follows a bot.deleteWebHook call
\* of the same invocation that succeeded, so that it is issued with no
\* webhook registered.
C24_WebhookSuccess ==
    /\ [](\A i \in WebhookRequests :
            /\ requests[i].reply = "success" => botInit
            /\ (requests[i].pc = "done" /\ ~botInit)
                    => requests[i].status = 500 /\ requests[i].reply = "error")
    /\ [][\A i \in WebhookRequests :
            (requests[i].pc # "done" /\ requests'[i].pc = "done")
                => IF requests[i].pc = "setWebHook" /\ webhook' = "set"
                   THEN requests'[i].status = 200 /\ requests'[i].reply = "success"
                   ELSE requests'[i].status = 500 /\ requests'[i].reply = "error"]_vars
    /\ [][\A k \in 1..Len(writes') :
            (k > Len(writes) /\ writes'[k].call = "setWebHook")
                => /\ webhook' = "none"
                   /\ \E j \in 1..Len(writes) :
                        /\ writes[j].req = writes'[k].req
                        /\ writes[j].call = "deleteWebHook"]_vars

-----------------------------------------------------------------------------
(* Properties of the routes *)

\* C23: the multiplant selector page, like the manage-users and the
\* manage-plants page, is rendered only while the stored role is admin, and
\* a multiplant_profile upsert is issued only while the stored role is
\* admin.
C23_AdminOnlySelector ==
    /\ [](Shown(route, guard) \in AdminPaths \cup {"/multiplant-selector"}
            => userRole = "admin")
    /\ [][Len(upserts') > Len(upserts) => userRole = "admin"]_vars

-----------------------------------------------------------------------------
(* Properties of the raw-data view *)

\* C29: whenever the view holds rows the current page is one of
\* 1..totalPages, also after a delete or a refresh gave it fewer rows, and
\* handlePageChange never sets a page outside 1..totalPages.
C29_PageInBounds ==
    /\ [](chartData # <<>> => currentPage \in 1..TotalPages)
    /\ [][currentPage' # currentPage => currentPage' \in 1..TotalPages]_vars

-----------------------------------------------------------------------------
(* Properties of the notification list *)

\* C30: no two notifications of the list have the same id, and a
\* removeNotification step removes exactly one notification and leaves the
\* others in their order.
C30_UniqueIds ==
    /\ [](\A i, j \in 1..Len(notifications) :
            i # j => notifications[i].id # notifications[j].id)
    /\ [][(Len(notifications') < Len(notifications) /\ notifications' # <<>>)
            => \E k \in 1..Len(notifications) :
                notifications' = SubSeq(notifications, 1, k - 1)
                                 \o SubSeq(notifications, k + 1, Len(notifications))]_vars
====
